---- MODULE Spec2Model ----
(***************************************************************************)
(* A model of kiara_plugin.tropy: the NetworkGraph data model              *)
(* (models.py), its serialization (data_types.py) and deserialization      *)
(* (modules/__init__.py), the centrality / cut-point / modularity modules  *)
(* and the graph assembly module (modules/create.py).                      *)
(*                                                                         *)
(* Strings that the code concatenates and splits (table ids, column names, *)
(* chunk keys) are sequences of tokens: "label" is <<"label">>, the empty  *)
(* string is <<>>, and the split marker is the one-token string            *)
(* <<"MARKER">>.  Concatenation is \o, a substring test is a token test.   *)
(*                                                                         *)
(* A table is [cols |-> sequence of column names, rows |-> sequence of     *)
(* rows], a row being the sequence of its values in column order.          *)
(***************************************************************************)
EXTENDS Integers, Sequences, FiniteSets, TLC

VARIABLES
    pc,          \* position of the caller: which operation has run last
    call,        \* the arguments of the create_from_tables call
    created,     \* what create_from_tables returned or raised
    fs,          \* the file system: path -> stored column file
    atexit,      \* temporary directories registered for removal at exit
    serialized,  \* what NetworkGraphType.serialize returned or raised
    loaded,      \* what DeserializeTableModule.to__python_object returned or raised
    opcall,      \* the inputs of the module that has run on the graph
    opres        \* what that module's process has set on its outputs, or raised

vars == <<pc, call, created, fs, atexit, serialized, loaded, opcall, opres>>

----------------------------------------------------------------------------
(* Bounds of the model *)

\* rows of an edges table whose contents vary
MaxRows == 2
\* rows of each table when both tables carry attribute columns
MaxAttrRows == 1
\* serialize calls in one process
MaxSerialize == 2
\* column keys of serialized data handed to the deserializer
MaxKeys == 2

----------------------------------------------------------------------------
(* Names *)

Str(s) == <<s>>

TABLE_COLUMN_SPLIT_MARKER == "MARKER"

EDGES_TABLE_NAME == Str("edges")
NODES_TABLE_NAME == Str("nodes")
DEFAULT_SOURCE_COLUMN_NAME == Str("source")
DEFAULT_TARGET_COLUMN_NAME == Str("target")
DEFAULT_NODE_ID_COLUMN_NAME == Str("node_id")

GraphType == {"directed", "undirected", "directed_multi", "undirected_multi"}

\* column names the callers of this model use besides the defaults
SRC == Str("src")
TGT == Str("tgt")
ID == Str("id")
LABEL == Str("label")
WEIGHT == Str("weight")

\* values of the cells: node identifiers and attribute values
NodeIds == {1, 2, 3}

AttrValues == {1, 2}

----------------------------------------------------------------------------
(* Sequences and tables *)

Range(s) == {s[i] : i \in 1..Len(s)}

Contains(s, x) == \E i \in 1..Len(s) : s[i] = x

IndexOf(s, x) == CHOOSE i \in 1..Len(s) : s[i] = x /\ \A j \in 1..(i - 1) : s[j] # x

Min(S) == CHOOSE x \in S : \A y \in S : x <= y

RECURSIVE Sorted(_)
Sorted(S) == IF S = {} THEN <<>> ELSE <<Min(S)>> \o Sorted(S \ {Min(S)})

\* the values of s in the order of their first occurrence
RECURSIVE FirstOccurrences(_)
FirstOccurrences(s) ==
    IF s = <<>> THEN <<>>
    ELSE LET front == FirstOccurrences(SubSeq(s, 1, Len(s) - 1))
             last == s[Len(s)]
         IN IF Contains(front, last) THEN front ELSE Append(front, last)

num_rows(t) == Len(t.rows)

Column(t, c) == [i \in 1..Len(t.rows) |-> t.rows[i][IndexOf(t.cols, c)]]

EmptyTable == [cols |-> <<>>, rows |-> <<>>]

\* an argument that holds a table: rep is the Python type that carries it
NoTable == [given |-> FALSE, rep |-> "none", cols |-> <<>>, rows |-> <<>>]

Given(rep, t) == [given |-> TRUE, rep |-> rep, cols |-> t.cols, rows |-> t.rows]

TableOf(arg) == [cols |-> arg.cols, rows |-> arg.rows]

\* Python truth value of a table argument: None is false, a pyarrow Table has
\* __len__ (its number of rows), a dict is false when empty, a KiaraTable is
\* an object without __len__ or __bool__
Truthy(arg) ==
    /\ arg.given
    /\ CASE arg.rep = "arrow" -> Len(arg.rows) > 0
         [] arg.rep = "dict" -> Len(arg.cols) > 0
         [] OTHER -> TRUE

----------------------------------------------------------------------------
(* models.py: NetworkGraph.create_from_tables *)

NoGraph ==
    [graph_type |-> "none", source_column_name |-> <<>>, target_column_name |-> <<>>,
     node_id_column_name |-> <<>>, tables |-> <<>>]

NetworkGraph(graph_type, source_column_name, target_column_name, node_id_column_name, edges_table, nodes_table) ==
    [graph_type |-> graph_type,
     source_column_name |-> source_column_name,
     target_column_name |-> target_column_name,
     node_id_column_name |-> node_id_column_name,
     tables |-> << [id |-> EDGES_TABLE_NAME, table |-> edges_table],
                   [id |-> NODES_TABLE_NAME, table |-> nodes_table] >>]

TableNamed(g, table_id) ==
    g.tables[CHOOSE i \in 1..Len(g.tables) : g.tables[i].id = table_id].table

edges(g) == TableNamed(g, EDGES_TABLE_NAME)

nodes(g) == TableNamed(g, NODES_TABLE_NAME)

Raised(error, missing, available, derived) ==
    [ok |-> FALSE, error |-> error, missing |-> missing, available |-> available,
     derived |-> derived, graph |-> NoGraph]

Returned(graph, derived) ==
    [ok |-> TRUE, error |-> "", missing |-> <<>>, available |-> <<>>,
     derived |-> derived, graph |-> graph]

NotCalled ==
    [ok |-> FALSE, error |-> "not called", missing |-> <<>>, available |-> <<>>,
     derived |-> FALSE, graph |-> NoGraph]

\* the first of the two configured edge columns that the edges table lacks,
\* <<>> when it has both
MissingEdgesColumn_SourceOnly(edges_columns, source_column_name, target_column_name) ==
    IF ~Contains(edges_columns, source_column_name) THEN source_column_name ELSE <<>>

MissingEdgesColumn(edges_columns, source_column_name, target_column_name) ==
    IF ~Contains(edges_columns, source_column_name) THEN source_column_name
    ELSE IF ~Contains(edges_columns, target_column_name) THEN target_column_name
    ELSE <<>>

\* SELECT DISTINCT .. FROM (SELECT source .. UNION SELECT target ..) ORDER BY ..
DerivedNodesTable_Unordered(edges_table, source_column_name, target_column_name, node_id_column_name) ==
    LET ids == FirstOccurrences(Column(edges_table, source_column_name)
                                \o Column(edges_table, target_column_name))
    IN [cols |-> <<node_id_column_name>>,
        rows |-> [i \in 1..Len(ids) |-> <<ids[i]>>]]

DerivedNodesTable(edges_table, source_column_name, target_column_name, node_id_column_name) ==
    LET combined == Range(Column(edges_table, source_column_name))
                    \cup Range(Column(edges_table, target_column_name))
        ordered == Sorted(combined)
    IN [cols |-> <<node_id_column_name>>,
        rows |-> [i \in 1..Len(ordered) |-> <<ordered[i]>>]]

\* nodes_table = KiaraTable.create_table(nodes_table) if nodes_table else None
CreatedNodesTable(nodes_table) ==
    IF Truthy(nodes_table) THEN Given("kiara", TableOf(nodes_table)) ELSE NoTable

create_from_tables(graph_type, edges_table, nodes_table, source_column_name, target_column_name, node_id_column_name) ==
    LET edges_columns == edges_table.cols
        nodes_kiara == CreatedNodesTable(nodes_table)
        missing == MissingEdgesColumn(edges_columns, source_column_name, target_column_name)
    IN IF missing # <<>>
       THEN Raised("schema: edges", missing, edges_columns, FALSE)
       ELSE IF ~Truthy(nodes_kiara)
       THEN \* the query names both columns: the engine rejects an unknown one
            IF \/ ~Contains(edges_columns, source_column_name)
               \/ ~Contains(edges_columns, target_column_name)
            THEN Raised("query: unknown column", <<>>, edges_columns, TRUE)
            ELSE Returned(NetworkGraph(graph_type, source_column_name, target_column_name,
                                       node_id_column_name, edges_table,
                                       DerivedNodesTable(edges_table, source_column_name,
                                                         target_column_name, node_id_column_name)),
                          TRUE)
       ELSE IF ~Contains(nodes_kiara.cols, node_id_column_name)
       THEN Raised("schema: nodes", node_id_column_name, nodes_kiara.cols, FALSE)
       ELSE Returned(NetworkGraph(graph_type, source_column_name, target_column_name,
                                  node_id_column_name, edges_table, TableOf(nodes_kiara)),
                     FALSE)

----------------------------------------------------------------------------
(* data_types.py: NetworkGraphType.serialize *)

NoFiles == [p \in {} |-> 0]

\* os.path.join(temp_f, column_name)
FilePath(temp_f, table_id, column_name) == [dir |-> temp_f, name |-> column_name]

\* d[key] = value on a dict kept as a sequence of entries in insertion order
HasKey(d, key) == \E i \in 1..Len(d) : d[i].key = key

DictSet(d, key, chunks) ==
    IF HasKey(d, key)
    THEN [i \in 1..Len(d) |-> IF d[i].key = key THEN [key |-> key, chunks |-> chunks] ELSE d[i]]
    ELSE Append(d, [key |-> key, chunks |-> chunks])

GRAPH_METADATA_KEY == Str("graph_metadata")

ColumnKey_ColumnOnly(table_id, column_name) == Str(TABLE_COLUMN_SPLIT_MARKER) \o column_name

ColumnKey(table_id, column_name) ==
    table_id \o Str(TABLE_COLUMN_SPLIT_MARKER) \o column_name

\* the (table id, column) pairs in the order the two loops visit them
RECURSIVE ColumnList(_)
ColumnList(tables) ==
    IF tables = <<>> THEN <<>>
    ELSE LET t == Head(tables)
         IN [i \in 1..Len(t.table.cols) |->
                [table_id |-> t.id, column_name |-> t.table.cols[i],
                 values |-> Column(t.table, t.table.cols[i])]]
            \o ColumnList(Tail(tables))

InvalidTableId_EmptyOnly(table_id) == table_id = <<>>

InvalidTableId(table_id) ==
    \/ table_id = <<>>
    \/ Contains(table_id, TABLE_COLUMN_SPLIT_MARKER)

\* the column loop from column i on: st is [ok, error, chunk_map, files].
\* A chunk is [type, file, codec, inline_data]; a file chunk has no inline
\* data and an inline chunk no file.
RECURSIVE StoreColumns(_, _, _, _)
StoreColumns(columns, i, temp_f, st) ==
    IF i > Len(columns) THEN st
    ELSE LET c == columns[i]
             file_name == FilePath(temp_f, c.table_id, c.column_name)
         IN IF c.column_name = <<>>
            THEN [st EXCEPT !.ok = FALSE, !.error = "column name is empty"]
            ELSE StoreColumns(columns, i + 1, temp_f,
                    [st EXCEPT
                        \* store_array: one file holding the array under the
                        \* column's name
                        !.files = [p \in DOMAIN st.files \cup {file_name} |->
                                    IF p = file_name
                                    THEN [column_name |-> c.column_name,
                                          values |-> c.values]
                                    ELSE st.files[p]],
                        !.chunk_map = DictSet(st.chunk_map,
                                              ColumnKey(c.table_id, c.column_name),
                                              <<[type |-> "file", file |-> file_name,
                                                 codec |-> "raw",
                                                 inline_data |->
                                                   [graph_type |-> "none",
                                                    source_column_name |-> <<>>,
                                                    target_column_name |-> <<>>,
                                                    node_id_column_name |-> <<>>]]>>)])

\* the result of serialize(data) when mkdtemp returns temp_f and the file
\* system holds files: [ok, error, chunk_map, temp_f, files, registered]
serialize(data, temp_f, files) ==
    IF \E i \in 1..Len(data.tables) : InvalidTableId(data.tables[i].id)
    THEN [ok |-> FALSE, error |-> "table id", chunk_map |-> <<>>, temp_f |-> 0,
          files |-> files, registered |-> FALSE]
    ELSE LET st == StoreColumns(ColumnList(data.tables), 1, temp_f,
                                [ok |-> TRUE, error |-> "", chunk_map |-> <<>>,
                                 files |-> files])
         IN IF ~st.ok
            THEN [ok |-> FALSE, error |-> st.error, chunk_map |-> <<>>, temp_f |-> temp_f,
                  files |-> st.files, registered |-> TRUE]
            ELSE [ok |-> TRUE, error |-> "",
                  chunk_map |-> DictSet(st.chunk_map, GRAPH_METADATA_KEY,
                                        <<[type |-> "inline-json", file |-> [dir |-> 0, name |-> <<>>],
                                           codec |-> "json",
                                           inline_data |->
                                             [graph_type |-> data.graph_type,
                                              source_column_name |-> data.source_column_name,
                                              target_column_name |-> data.target_column_name,
                                              node_id_column_name |->
                                                  data.node_id_column_name]]>>),
                  temp_f |-> temp_f, files |-> st.files, registered |-> TRUE]

----------------------------------------------------------------------------
(* modules/__init__.py: DeserializeTableModule.to__python_object *)

FirstMarker_Last(column_id) ==
    CHOOSE i \in 1..Len(column_id) :
        /\ column_id[i] = TABLE_COLUMN_SPLIT_MARKER
        /\ \A j \in (i + 1)..Len(column_id) : column_id[j] # TABLE_COLUMN_SPLIT_MARKER

\* column_id.split(TABLE_COLUMN_SPLIT_MARKER, maxsplit=1): the place of the
\* first marker
FirstMarker(column_id) ==
    CHOOSE i \in 1..Len(column_id) :
        /\ column_id[i] = TABLE_COLUMN_SPLIT_MARKER
        /\ \A j \in 1..(i - 1) : column_id[j] # TABLE_COLUMN_SPLIT_MARKER

\* tables.setdefault(table_id, {})[column_name] = column, on a dict of dicts
\* kept as a sequence of [id, columns], columns a sequence of [name, values]
SetTableColumn(tables, table_id, column_name, values) ==
    IF \E i \in 1..Len(tables) : tables[i].id = table_id
    THEN [i \in 1..Len(tables) |->
            IF tables[i].id # table_id THEN tables[i]
            ELSE [id |-> table_id,
                  columns |->
                     IF \E k \in 1..Len(tables[i].columns) :
                            tables[i].columns[k].name = column_name
                     THEN [k \in 1..Len(tables[i].columns) |->
                             IF tables[i].columns[k].name = column_name
                             THEN [name |-> column_name, values |-> values]
                             ELSE tables[i].columns[k]]
                     ELSE Append(tables[i].columns,
                                 [name |-> column_name, values |-> values])]]
    ELSE Append(tables, [id |-> table_id,
                         columns |-> <<[name |-> column_name, values |-> values]>>])

SingleChunk_First(chunks) == Len(chunks) >= 1

\* assert chunks.get_number_of_chunks() == 1, and of the files of the chunks
SingleChunk(chunks) == Len(chunks) = 1

\* the key loop from key i on: st is [ok, error, tables]
RECURSIVE LoadColumns(_, _, _, _)
LoadColumns(data, files, i, st) ==
    IF i > Len(data) THEN st
    ELSE LET column_id == data[i].key
             chunks == data[i].chunks
         IN IF column_id = GRAPH_METADATA_KEY
            THEN LoadColumns(data, files, i + 1, st)
            ELSE IF ~Contains(column_id, TABLE_COLUMN_SPLIT_MARKER)
            THEN [st EXCEPT !.ok = FALSE, !.error = "format: key without marker"]
            ELSE IF ~SingleChunk(chunks)
            THEN [st EXCEPT !.ok = FALSE, !.error = "assert: number of chunks"]
            ELSE IF chunks[1].file \notin DOMAIN files
            THEN [st EXCEPT !.ok = FALSE, !.error = "file not found"]
            \* table_id, column_name = column_id.split(MARKER, maxsplit=1)
            ELSE LET table_id == SubSeq(column_id, 1, FirstMarker(column_id) - 1)
                     column_name == SubSeq(column_id, FirstMarker(column_id) + 1,
                                           Len(column_id))
                     stored == files[chunks[1].file]
                 IN IF stored.column_name # column_name
                    THEN [st EXCEPT !.ok = FALSE, !.error = "no such column in file"]
                    ELSE LoadColumns(data, files, i + 1,
                            [st EXCEPT !.tables =
                                SetTableColumn(st.tables, table_id,
                                               column_name, stored.values)])

\* KiaraTable.create_table on a dict of columns: the columns must be equally long
Ragged(columns) ==
    \E i, j \in 1..Len(columns) : Len(columns[i].values) # Len(columns[j].values)

DictTable(columns) ==
    [cols |-> [i \in 1..Len(columns) |-> columns[i].name],
     rows |-> IF columns = <<>> THEN <<>>
              ELSE [r \in 1..Len(columns[1].values) |->
                        [i \in 1..Len(columns) |-> columns[i].values[r]]]]

ColumnsOf(tables, table_id) ==
    tables[CHOOSE i \in 1..Len(tables) : tables[i].id = table_id].columns

to__python_object(data, files) ==
    IF ~HasKey(data, GRAPH_METADATA_KEY)
    THEN Raised("no graph_metadata", <<>>, <<>>, FALSE)
    ELSE LET chunks == data[CHOOSE i \in 1..Len(data) : data[i].key = GRAPH_METADATA_KEY].chunks
             graph_metadata == chunks[1].inline_data
             st == LoadColumns(data, files, 1, [ok |-> TRUE, error |-> "", tables |-> <<>>])
             has(id) == \E i \in 1..Len(st.tables) : st.tables[i].id = id
         IN IF graph_metadata.graph_type \notin GraphType
            THEN Raised("invalid graph type", <<>>, <<>>, FALSE)
            ELSE IF ~st.ok
            THEN Raised(st.error, <<>>, <<>>, FALSE)
            ELSE IF ~has(Str("edges"))
            THEN Raised("no edges table", <<>>, <<>>, FALSE)
            ELSE IF \/ Ragged(ColumnsOf(st.tables, Str("edges")))
                    \/ has(Str("nodes")) /\ Ragged(ColumnsOf(st.tables, Str("nodes")))
            THEN Raised("columns of unequal length", <<>>, <<>>, FALSE)
            ELSE create_from_tables(
                    graph_metadata.graph_type,
                    DictTable(ColumnsOf(st.tables, Str("edges"))),
                    IF has(Str("nodes"))
                    THEN Given("dict", DictTable(ColumnsOf(st.tables, Str("nodes"))))
                    ELSE NoTable,
                    graph_metadata.source_column_name,
                    graph_metadata.target_column_name,
                    graph_metadata.node_id_column_name)

----------------------------------------------------------------------------
(* The graph objects of the graph library, as models.py uses them.          *)
(* A graph is [kind, nodes, edges]: nodes a sequence of [id, attrs] and     *)
(* edges a sequence of [u, v, attrs], both in insertion order; attrs is a   *)
(* dict kept as a sequence of [name, value] in insertion order.             *)

\* the cell of a data frame for an attribute that a node or an edge lacks
NaN == 0

GraphKinds == {"Graph", "DiGraph", "MultiGraph", "MultiDiGraph"}

\* isinstance(graph, cls) along the library's class hierarchy
IsInstance(kind, cls) ==
    CASE cls = "Graph" -> kind \in GraphKinds
      [] cls = "DiGraph" -> kind \in {"DiGraph", "MultiDiGraph"}
      [] cls = "MultiGraph" -> kind \in {"MultiGraph", "MultiDiGraph"}
      [] cls = "MultiDiGraph" -> kind = "MultiDiGraph"
      [] OTHER -> FALSE

is_directed(G) == IsInstance(G.kind, "DiGraph")

is_multigraph(G) == IsInstance(G.kind, "MultiGraph")

EmptyGraph(kind) == [kind |-> kind, nodes |-> <<>>, edges |-> <<>>]

HasAttr(attrs, name) == \E i \in 1..Len(attrs) : attrs[i].name = name

AttrGet(attrs, name) == attrs[CHOOSE i \in 1..Len(attrs) : attrs[i].name = name].value

AttrSet(attrs, name, value) ==
    IF HasAttr(attrs, name)
    THEN [i \in 1..Len(attrs) |->
            IF attrs[i].name = name THEN [name |-> name, value |-> value] ELSE attrs[i]]
    ELSE Append(attrs, [name |-> name, value |-> value])

\* dict.update
RECURSIVE AttrUpdate(_, _)
AttrUpdate(attrs, new) ==
    IF new = <<>> THEN attrs
    ELSE AttrUpdate(AttrSet(attrs, Head(new).name, Head(new).value), Tail(new))

AttrNames(attrs) == [i \in 1..Len(attrs) |-> attrs[i].name]

\* row.to_dict(): every column of the row, the key columns included
RowDict(cols, row) == [i \in 1..Len(cols) |-> [name |-> cols[i], value |-> row[i]]]

NodeIdsOf(G) == [i \in 1..Len(G.nodes) |-> G.nodes[i].id]

HasNode(G, n) == \E i \in 1..Len(G.nodes) : G.nodes[i].id = n

NodeAttrs(G, n) == G.nodes[CHOOSE i \in 1..Len(G.nodes) : G.nodes[i].id = n].attrs

add_node(G, n, attrs) ==
    IF HasNode(G, n)
    THEN [G EXCEPT !.nodes = [i \in 1..Len(G.nodes) |->
            IF G.nodes[i].id = n
            THEN [id |-> n, attrs |-> AttrUpdate(G.nodes[i].attrs, attrs)]
            ELSE G.nodes[i]]]
    ELSE [G EXCEPT !.nodes = Append(G.nodes, [id |-> n, attrs |-> attrs])]

SameEdge(G, e, u, v) ==
    \/ e.u = u /\ e.v = v
    \/ ~is_directed(G) /\ e.u = v /\ e.v = u

add_edge(G, u, v, attrs) ==
    LET G1 == add_node(add_node(G, u, <<>>), v, <<>>)
    IN IF ~is_multigraph(G) /\ \E i \in 1..Len(G.edges) : SameEdge(G, G.edges[i], u, v)
       THEN [G1 EXCEPT !.edges = [i \in 1..Len(G.edges) |->
                IF SameEdge(G, G.edges[i], u, v)
                THEN [G.edges[i] EXCEPT !.attrs = AttrUpdate(G.edges[i].attrs, attrs)]
                ELSE G.edges[i]]]
       ELSE [G1 EXCEPT !.edges = Append(G.edges, [u |-> u, v |-> v, attrs |-> attrs])]

\* nx.selfloop_edges(G)
selfloop_edges(G) == SelectSeq(G.edges, LAMBDA e : e.u = e.v)

\* G.remove_edges_from(list(nx.selfloop_edges(G)))
remove_selfloops(G) ==
    [G EXCEPT !.edges = SelectSeq(G.edges, LAMBDA e : ~Contains(selfloop_edges(G), e))]

\* G.degree(n): the edge ends at n, a self-loop counting twice
degree(G, n) ==
    Cardinality({i \in 1..Len(G.edges) : G.edges[i].u = n})
    + Cardinality({i \in 1..Len(G.edges) : G.edges[i].v = n})

\* nx.set_node_attributes(G, values, name), values a sequence of [id, value]
RECURSIVE set_node_attributes(_, _, _)
set_node_attributes(G, values, name) ==
    IF values = <<>> THEN G
    ELSE LET h == Head(values)
             G1 == IF HasNode(G, h.id)
                   THEN [G EXCEPT !.nodes = [i \in 1..Len(G.nodes) |->
                            IF G.nodes[i].id = h.id
                            THEN [id |-> h.id,
                                  attrs |-> AttrSet(G.nodes[i].attrs, name, h.value)]
                            ELSE G.nodes[i]]]
                   ELSE G
         IN set_node_attributes(G1, Tail(values), name)

RECURSIVE Flatten(_)
Flatten(ss) == IF ss = <<>> THEN <<>> ELSE Head(ss) \o Flatten(Tail(ss))

EdgesFrom(G, n) ==
    LET index(m) == CHOOSE i \in 1..Len(G.nodes) : G.nodes[i].id = m
        seen(m) == ~is_directed(G) /\ index(m) < index(n)
        touching == SelectSeq(G.edges,
                        LAMBDA e : e.u = n \/ (~is_directed(G) /\ e.v = n))
        neighbours == FirstOccurrences([i \in 1..Len(touching) |->
                        IF touching[i].u = n THEN touching[i].v ELSE touching[i].u])
        nbrs == SelectSeq(neighbours, LAMBDA m : ~seen(m))
        between(m) == SelectSeq(G.edges, LAMBDA e : SameEdge(G, e, n, m))
    IN Flatten([k \in 1..Len(nbrs) |->
            LET es == between(nbrs[k])
            IN [i \in 1..Len(es) |-> [u |-> n, v |-> nbrs[k], attrs |-> es[i].attrs]]])

EdgeList(G) == Flatten([i \in 1..Len(G.nodes) |-> EdgesFrom(G, G.nodes[i].id)])

----------------------------------------------------------------------------
(* models.py: NetworkGraph.as_networkx_graph *)

GraphKindOf(graph_type) ==
    CASE graph_type = "directed" -> "DiGraph"
      [] graph_type = "undirected" -> "Graph"
      [] graph_type = "directed_multi" -> "MultiDiGraph"
      [] graph_type = "undirected_multi" -> "MultiGraph"

RECURSIVE AddNodeRows(_, _, _)
AddNodeRows(G, g, i) ==
    IF i > Len(nodes(g).rows) THEN G
    ELSE LET row == nodes(g).rows[i]
         IN AddNodeRows(
                add_node(G, row[IndexOf(nodes(g).cols, g.node_id_column_name)],
                         RowDict(nodes(g).cols, row)),
                g, i + 1)

RECURSIVE AddEdgeRows(_, _, _)
AddEdgeRows(G, g, i) ==
    IF i > Len(edges(g).rows) THEN G
    ELSE LET row == edges(g).rows[i]
         IN AddEdgeRows(
                add_edge(G, row[IndexOf(edges(g).cols, g.source_column_name)],
                         row[IndexOf(edges(g).cols, g.target_column_name)],
                         RowDict(edges(g).cols, row)),
                g, i + 1)

as_networkx_graph(g) ==
    AddEdgeRows(AddNodeRows(EmptyGraph(GraphKindOf(g.graph_type)), g, 1), g, 1)

----------------------------------------------------------------------------
(* models.py: NetworkGraph.create_from_networkx_graph *)

\* the isinstance chain; "none" when no branch matches
ClassifiedGraphType_DirectedFirst(kind) ==
    IF IsInstance(kind, "DiGraph") THEN "directed"
    ELSE IF IsInstance(kind, "MultiDiGraph") THEN "directed_multi"
    ELSE IF IsInstance(kind, "MultiGraph") THEN "undirected_multi"
    ELSE IF IsInstance(kind, "Graph") THEN "undirected"
    ELSE "none"

ClassifiedGraphType(kind) ==
    IF IsInstance(kind, "MultiDiGraph") THEN "directed_multi"
    ELSE IF IsInstance(kind, "MultiGraph") THEN "undirected_multi"
    ELSE IF IsInstance(kind, "DiGraph") THEN "directed"
    ELSE IF IsInstance(kind, "Graph") THEN "undirected"
    ELSE "none"

HasDuplicates(s) == \E i, j \in 1..Len(s) : i # j /\ s[i] = s[j]

\* pd.DataFrame.from_dict(node_dict, orient="index"), reset_index, rename:
\* one column per attribute name in the order first seen, one row per node
\* that has an attribute, the node id first
NodesFrame(G, node_id_column_name) ==
    LET attr_cols == FirstOccurrences(
                        Flatten([i \in 1..Len(G.nodes) |-> AttrNames(G.nodes[i].attrs)]))
        having(c) == SelectSeq(NodeIdsOf(G), LAMBDA n : HasAttr(NodeAttrs(G, n), c))
        index == FirstOccurrences(Flatten([k \in 1..Len(attr_cols) |-> having(attr_cols[k])]))
    IN [cols |-> <<node_id_column_name>> \o attr_cols,
        rows |-> [r \in 1..Len(index) |->
                    <<index[r]>> \o
                    [k \in 1..Len(attr_cols) |->
                        IF HasAttr(NodeAttrs(G, index[r]), attr_cols[k])
                        THEN AttrGet(NodeAttrs(G, index[r]), attr_cols[k])
                        ELSE NaN]]]

\* the iteration order of a set of strings: it follows the process's string
\* hashes; two orders stand for the orders a process may see
SetOrder(names, hash_seed) ==
    IF hash_seed = 1 THEN names ELSE [i \in 1..Len(names) |-> names[Len(names) + 1 - i]]

HashSeeds == {1, 2}

\* the attribute names of the edges, in the order of a set of strings
EdgeAttrNames(edgelist, hash_seed) ==
    SetOrder(FirstOccurrences(
                Flatten([i \in 1..Len(edgelist) |-> AttrNames(edgelist[i].attrs)])),
             hash_seed)

\* the frame of an edge list: [ok, table]; a source or target name that is
\* also the name of an edge attribute is refused
EdgeListFrame(edgelist, all_attrs, source, target) ==
    IF Contains(all_attrs, source) \/ Contains(all_attrs, target)
    THEN [ok |-> FALSE, table |-> EmptyTable]
    ELSE [ok |-> TRUE,
          table |->
             [cols |-> <<source, target>> \o all_attrs,
              rows |-> [r \in 1..Len(edgelist) |->
                         <<edgelist[r].u, edgelist[r].v>> \o
                         [k \in 1..Len(all_attrs) |->
                             IF HasAttr(edgelist[r].attrs, all_attrs[k])
                             THEN AttrGet(edgelist[r].attrs, all_attrs[k])
                             ELSE NaN]]]]

\* the second half of create_from_networkx_graph: the two frames become
\* tables, and the tables a graph
FromFrames(graph_type, nodes_data, edges_df, names) ==
    IF HasDuplicates(nodes_data.cols)
    THEN Raised("nodes: duplicate column names", <<>>, nodes_data.cols, FALSE)
    ELSE IF ~edges_df.ok
    THEN Raised("edges: column name is an edge attribute", <<>>, <<>>, FALSE)
    ELSE IF HasDuplicates(edges_df.table.cols)
    THEN Raised("edges: duplicate column names", <<>>, edges_df.table.cols, FALSE)
    ELSE create_from_tables(graph_type, edges_df.table, Given("kiara", nodes_data),
                            names.source, names.target, names.node_id)

create_from_networkx_graph(graph, source_column_name, target_column_name, node_id_column_name, hash_seed) ==
    IF ClassifiedGraphType(graph.kind) = "none"
    THEN Raised("invalid graph type", <<>>, <<>>, FALSE)
    ELSE FromFrames(ClassifiedGraphType(graph.kind),
                    NodesFrame(graph, node_id_column_name),
                    \* nx.to_pandas_edgelist(graph, source=.., target=..)
                    EdgeListFrame(EdgeList(graph), EdgeAttrNames(EdgeList(graph), hash_seed),
                                  source_column_name, target_column_name),
                    \* the names handed on to create_from_tables are literals,
                    \* and no node id name is handed on
                    [source |-> Str("source"), target |-> Str("target"),
                     node_id |-> DEFAULT_NODE_ID_COLUMN_NAME])

----------------------------------------------------------------------------
(* modules/centrality_measures_module.py, cutpoints_module.py, modularity.py *)
(*                                                                          *)
(* A module's process(inputs, outputs) is an operator from its inputs to    *)
(* [ok, error, outputs, network, aux, calls]: outputs the names set on the  *)
(* output map, network the graph set under the module's network output,     *)
(* aux the second output, calls the graphs handed to the graph library's    *)
(* measures, in order.  What the library answers is not modelled beyond its *)
(* being a function of the graph handed over: lib tells, call by call,      *)
(* whether the library answers or raises.                                   *)

LibCall(fn, G, weight) == [fn |-> fn, graph |-> G, weight |-> weight]

\* the library's answer, node by node; the degree stands for the score of a
\* node in the graph handed over
Scores(G) == [i \in 1..Len(G.nodes) |->
                [id |-> G.nodes[i].id, value |-> degree(G, G.nodes[i].id)]]

Failed_Partial(error, calls) ==
    [ok |-> FALSE, error |-> error, outputs |-> {"network_result"}, network |-> NoGraph,
     aux |-> <<>>, calls |-> calls]

Failed(error, calls) ==
    [ok |-> FALSE, error |-> error, outputs |-> {}, network |-> NoGraph,
     aux |-> <<>>, calls |-> calls]

\* attribute_network = NetworkGraph.create_from_networkx_graph(G), then
\* outputs.set_values(..)
SetOutputs(G, names, aux, calls, hash_seed) ==
    LET attribute_network ==
            create_from_networkx_graph(G, DEFAULT_SOURCE_COLUMN_NAME,
                                       DEFAULT_TARGET_COLUMN_NAME,
                                       DEFAULT_NODE_ID_COLUMN_NAME, hash_seed)
    IN IF ~attribute_network.ok
       THEN Failed(attribute_network.error, calls)
       ELSE [ok |-> TRUE, error |-> "", outputs |-> names,
             network |-> attribute_network.graph, aux |-> aux, calls |-> calls]

\* network_data once a module is done with the graph object G it has projected:
\* as_networkx_graph makes G a new object (graph_type()) and fills it from
\* data frames converted out of the tables (to_pandas, row.to_dict()), so
\* that removing edges from G or setting attributes on it reaches no table
RecordAfter_Shared(network_data, G) ==
    [network_data EXCEPT !.tables[1].table.rows = SubSeq(@, 1, Len(G.edges))]

RecordAfter(network_data, G) == network_data

\* models.py: NetworkGraph.query; what the database answers to the query is
\* an input, the tables being handed to it as they are
query(network_data, answer) ==
    [ok |-> answer.ok, error |-> IF answer.ok THEN "" ELSE "query",
     outputs |-> {}, network |-> NoGraph, aux |-> answer.result, calls |-> <<>>]

\* the graph the unweighted measures work on
MeasuredGraph(network_data) == remove_selfloops(as_networkx_graph(network_data))

Degree_Ranking_process(network_data, hash_seed) ==
    LET G == MeasuredGraph(network_data)
        degrees == [i \in 1..Len(G.nodes) |->
                    [id |-> G.nodes[i].id, value |-> degree(G, G.nodes[i].id)]]
        G1 == set_node_attributes(G, degrees, Str("Degree Score"))
    IN SetOutputs(G1, {"centrality_network"}, <<>>, <<LibCall("degree", G, <<>>)>>,
                  hash_seed)

Betweenness_Ranking_process(network_data, lib, hash_seed) ==
    LET G == MeasuredGraph(network_data)
        calls == <<LibCall("betweenness_centrality", G, <<>>)>>
        G1 == set_node_attributes(G, Scores(G), Str("Betweenness Score"))
    IN IF ~lib[1] THEN Failed("library", calls)
       ELSE SetOutputs(G1, {"centrality_network"}, <<>>, calls, hash_seed)

Eigenvector_Ranking_process(network_data, iterations, lib, hash_seed) ==
    LET G == MeasuredGraph(network_data)
        calls == <<LibCall("eigenvector_centrality", G, <<>>)>>
        G1 == set_node_attributes(G, Scores(G), Str("Eigenvector Score"))
    IN IF ~lib[1] THEN Failed("library", calls)
       ELSE SetOutputs(G1, {"centrality_network"}, <<>>, calls, hash_seed)

\* the graph of the weighted closeness: [ok, error, graph]
\*   graph = network_data.as_networkx_graph()
\*   edge_weight = nx.get_edge_attributes(graph, weight_name)
\*   for u, v, key in edge_weight: nx.set_edge_attributes(graph, edge_weight, "weight")
\*   if wm is True: for u, v, d in graph.edges(data=True): d["weight"] == (1 / d["weight"])
WeightedGraph(network_data, weight_name, wm) ==
    LET graph == as_networkx_graph(network_data)
        has_weight_name == \E i \in 1..Len(graph.edges) :
                                HasAttr(graph.edges[i].attrs, weight_name)
        copied == [graph EXCEPT !.edges = [i \in 1..Len(graph.edges) |->
                    IF HasAttr(graph.edges[i].attrs, weight_name)
                    THEN [graph.edges[i] EXCEPT !.attrs =
                            AttrSet(graph.edges[i].attrs, WEIGHT,
                                    AttrGet(graph.edges[i].attrs, weight_name))]
                    ELSE graph.edges[i]]]
    IN IF has_weight_name /\ ~is_multigraph(graph)
       THEN [ok |-> FALSE, error |-> "unpack: edge keys are pairs", graph |-> graph]
       ELSE IF wm /\ \E i \in 1..Len(copied.edges) : ~HasAttr(copied.edges[i].attrs, WEIGHT)
       THEN [ok |-> FALSE, error |-> "key: weight", graph |-> copied]
       ELSE [ok |-> TRUE, error |-> "", graph |-> copied]

Closeness_Ranking_process(network_data, wd, weight_name, wm, lib, hash_seed) ==
    LET G == MeasuredGraph(network_data)
        calls == <<LibCall("closeness_centrality", G, <<>>)>>
        G1 == set_node_attributes(G, Scores(G), Str("Closeness Score"))
    IN IF ~lib[1] THEN Failed("library", calls)
       ELSE IF G.nodes = <<>>
       THEN Failed("data frame: length mismatch", calls)
       ELSE IF ~wd
       THEN SetOutputs(G1, {"network_result", "centrality_network"}, Scores(G), calls,
                       hash_seed)
       ELSE LET w == WeightedGraph(network_data, weight_name, wm)
                calls2 == Append(calls, LibCall("closeness_centrality", w.graph, WEIGHT))
                G2 == set_node_attributes(G1, Scores(w.graph),
                                          Str("Weighted Closeness Score"))
            IN IF ~w.ok THEN Failed(w.error, calls)
               ELSE IF ~lib[2] THEN Failed("library", calls2)
               ELSE SetOutputs(G2, {"network_result", "centrality_network"}, Scores(G),
                               calls2, hash_seed)

\* nodes that can be reached from n without passing through the nodes in gone
RECURSIVE Reach(_, _, _)
Reach(G, seen, gone) ==
    LET more == {m \in Range(NodeIdsOf(G)) \ (seen \cup gone) :
                    \E i \in 1..Len(G.edges) :
                        \/ G.edges[i].u \in seen /\ G.edges[i].v = m
                        \/ G.edges[i].v \in seen /\ G.edges[i].u = m}
    IN IF more = {} THEN seen ELSE Reach(G, seen \cup more, gone)

Components(G, gone) ==
    {Reach(G, {n}, gone) : n \in Range(NodeIdsOf(G)) \ gone}

\* nx.articulation_points(G): the nodes whose removal leaves more components
articulation_points(G) ==
    SelectSeq(NodeIdsOf(G),
              LAMBDA n : Cardinality(Components(G, {n})) > Cardinality(Components(G, {})))

CutPointsList_process(network_data, hash_seed) ==
    LET G == as_networkx_graph(network_data)
        cutpoints == articulation_points(G)
        cut_dict == [i \in 1..Len(G.nodes) |->
                        [id |-> G.nodes[i].id,
                         value |-> IF Contains(cutpoints, G.nodes[i].id)
                                   THEN "Yes" ELSE "No"]]
        G1 == set_node_attributes(G, cut_dict, Str("Cut Point"))
        calls == <<LibCall("articulation_points", G, <<>>)>>
    IN IF is_directed(G) THEN Failed("library: not implemented for directed type", calls)
       ELSE SetOutputs(G1, {"network_result", "cut_network"}, cutpoints, calls, hash_seed)

\* the communities the library may answer with, as a sequence of sets of nodes
Communities(G) ==
    { Sorted({Min(c) : c \in Components(G, {})}),
      Sorted(Range(NodeIdsOf(G))) }

CommunitySeq(G, least) ==
    [k \in 1..Len(least) |->
        IF least = Sorted(Range(NodeIdsOf(G))) THEN {least[k]}
        ELSE Reach(G, {least[k]}, {})]

\* number_of_communities is None
None == [is_none |-> TRUE, value |-> 0]

\* a call community.greedy_modularity_communities(G, cutoff=.., best_n=..)
\* and its answer; None stands for an argument that is not passed
CommunityCall(G, cutoff, best_n, answer) ==
    [fn |-> "greedy_modularity_communities", graph |-> G, weight |-> <<>>,
     cutoff |-> cutoff, best_n |-> best_n, answer |-> answer]

ModularityCommunity_process(network_data, number_of_communities, communities, max_communities, lib, hash_seed) ==
    LET G == as_networkx_graph(network_data)
        maximum_modularity ==
            IF number_of_communities.is_none THEN Len(communities)
            ELSE Len(max_communities)
        modularity_dict ==
            Flatten([k \in 1..Len(communities) |->
                LET members == Sorted(communities[k])
                IN [i \in 1..Len(members) |-> [id |-> members[i], value |-> k - 1]]])
        G1 == set_node_attributes(G, modularity_dict, Str("modularity_group"))
        call1 == <<CommunityCall(G, number_of_communities, number_of_communities,
                                 communities)>>
        calls == IF number_of_communities.is_none THEN call1
                 ELSE Append(call1, CommunityCall(G, None, None, max_communities))
    IN IF ~lib[1] THEN Failed("library", call1)
       ELSE IF ~number_of_communities.is_none /\ ~lib[2] THEN Failed("library", calls)
       ELSE SetOutputs(G1, {"modularity_network", "maximum_modularity"},
                       <<maximum_modularity>>, calls, hash_seed)

----------------------------------------------------------------------------
(* modules/centrality.py: DegreeRankingModule.process                       *)
(*                                                                          *)
(* random is what np.random.rand(num_nodes) returns on this run: one value  *)
(* for every row of the nodes table.  The output is the network data with   *)
(* the values as a further column of its nodes table (create_augmented).    *)

DegreeRankingModule_process(network_data, use_weighted, weight_name, random) ==
    LET centrality_column_name ==
            IF use_weighted THEN Str("_degree_weighted_") \o weight_name
            ELSE Str("_degree_unweighted")
        cloned ==
            [network_data EXCEPT
                !.tables[2].table.cols = Append(@, centrality_column_name),
                !.tables[2].table.rows = [i \in 1..Len(@) |-> Append(@[i], random[i])]]
    IN [ok |-> TRUE, error |-> "", outputs |-> {"network_data"}, network |-> cloned,
        aux |-> <<>>, calls |-> <<>>]

----------------------------------------------------------------------------
(* The arguments that callers pass to create_from_tables *)

RECURSIVE RowsOver(_, _)
RowsOver(cols, ids) ==
    IF cols = <<>> THEN {<<>>}
    ELSE {<<v>> \o r :
            v \in (IF Head(cols) \in {LABEL, WEIGHT} THEN AttrValues ELSE ids),
            r \in RowsOver(Tail(cols), ids)}

TablesOver(cols, max, ids) ==
    {[cols |-> cols, rows |-> rows] :
        rows \in UNION {[1..n -> RowsOver(cols, ids)] : n \in 0..max}}

Bindings ==
    { [source |-> DEFAULT_SOURCE_COLUMN_NAME, target |-> DEFAULT_TARGET_COLUMN_NAME,
       node_id |-> DEFAULT_NODE_ID_COLUMN_NAME],
      [source |-> SRC, target |-> TGT, node_id |-> ID] }

Args(graph_type, edges_table, nodes_table, b) ==
    [graph_type |-> graph_type, edges_table |-> edges_table, nodes_table |-> nodes_table,
     source_column_name |-> b.source, target_column_name |-> b.target,
     node_id_column_name |-> b.node_id]

\* tables of every column layout, with no row or one row
EdgeColumnLists ==
    { <<DEFAULT_SOURCE_COLUMN_NAME, DEFAULT_TARGET_COLUMN_NAME>>,
      <<DEFAULT_SOURCE_COLUMN_NAME, DEFAULT_TARGET_COLUMN_NAME, LABEL>>,
      <<SRC, TGT>>,
      <<DEFAULT_SOURCE_COLUMN_NAME, TGT>>,
      <<LABEL, SRC, DEFAULT_TARGET_COLUMN_NAME>>,
      \* a column whose name holds the split marker
      <<DEFAULT_SOURCE_COLUMN_NAME, DEFAULT_TARGET_COLUMN_NAME,
        <<"x", TABLE_COLUMN_SPLIT_MARKER, "y">>>> }

NodeColumnLists ==
    { <<DEFAULT_NODE_ID_COLUMN_NAME>>, <<ID>>, <<LABEL>>,
      <<LABEL, DEFAULT_NODE_ID_COLUMN_NAME>> }

OnesTables(cols) ==
    { [cols |-> cols, rows |-> <<>>],
      [cols |-> cols, rows |-> << [i \in 1..Len(cols) |-> 1] >>] }

\* the calls of create_from_tables: tables with every column list, edges
\* tables with varying endpoints and no nodes table, and both tables with an
\* attribute column of the same name
CreateArgs ==
    { Args(gt, e, n, b) :
        gt \in GraphType,
        e \in UNION {OnesTables(cols) : cols \in EdgeColumnLists},
        n \in {NoTable} \cup
              {Given(rep, t) : rep \in {"arrow", "kiara"},
                               t \in UNION {OnesTables(cols) : cols \in NodeColumnLists}},
        b \in Bindings }
    \cup
    UNION { { Args(gt, e, NoTable, b) :
                gt \in GraphType,
                e \in TablesOver(<<b.source, b.target>>, MaxRows, NodeIds) } :
            b \in Bindings }
    \cup
    UNION { { Args(gt, e, Given("kiara", n), b) :
                gt \in GraphType,
                e \in TablesOver(<<b.source, b.target, LABEL>>, MaxAttrRows, {1, 2}),
                n \in TablesOver(<<b.node_id, LABEL>>, MaxAttrRows, {1, 2}) } :
            b \in Bindings }


----------------------------------------------------------------------------
(* The caller: create, then serialize, then deserialize *)

OpCall(op, wd, weight_name, wm, number_of_communities, lib, graph, names) ==
    [op |-> op, wd |-> wd, weight_name |-> weight_name, wm |-> wm,
     number_of_communities |-> number_of_communities, lib |-> lib, graph |-> graph,
     names |-> names]

NoNames == [source |-> <<>>, target |-> <<>>, node_id |-> <<>>]

NoOp == OpCall("none", FALSE, <<>>, FALSE, None, <<TRUE, TRUE>>, EmptyGraph("none"), NoNames)

NotSerialized ==
    [ok |-> FALSE, error |-> "not called", chunk_map |-> <<>>, temp_f |-> 0,
     registered |-> FALSE]

Init ==
    /\ pc = "start"
    /\ call = Args("none", EmptyTable, NoTable,
                   [source |-> <<>>, target |-> <<>>, node_id |-> <<>>])
    /\ created = NotCalled
    /\ fs = NoFiles
    /\ atexit = <<>>
    /\ serialized = NotSerialized
    /\ loaded = NotCalled
    /\ opcall = NoOp
    /\ opres = Failed("not called", <<>>)

CreateFromTables ==
    /\ pc = "start"
    /\ \E a \in CreateArgs :
        /\ call' = a
        /\ created' = create_from_tables(a.graph_type, a.edges_table, a.nodes_table,
                                         a.source_column_name, a.target_column_name,
                                         a.node_id_column_name)
    /\ pc' = "created"
    /\ UNCHANGED <<fs, atexit, serialized, loaded, opcall, opres>>

\* serialize(created.graph): mkdtemp returns a directory that does not exist yet
mkdtemp_Shared(registered) == 1

\* tempfile.mkdtemp(): a directory that did not exist before, the directories
\* made so far being the registered ones
mkdtemp(registered) == Len(registered) + 1

Serialize ==
    /\ pc \in {"created", "serialized"}
    /\ created.ok
    /\ Len(atexit) < MaxSerialize
    /\ LET temp_f == mkdtemp(atexit)
           r == serialize(created.graph, temp_f, fs)
       IN /\ serialized' = [ok |-> r.ok, error |-> r.error, chunk_map |-> r.chunk_map,
                            temp_f |-> r.temp_f, registered |-> r.registered]
          /\ fs' = r.files
          /\ atexit' = IF r.registered THEN Append(atexit, temp_f) ELSE atexit
    /\ pc' = "serialized"
    /\ UNCHANGED <<call, created, loaded, opcall, opres>>

\* to__python_object on the value serialize returned
Deserialize ==
    /\ pc = "serialized"
    /\ serialized.ok
    /\ loaded' = to__python_object(serialized.chunk_map, fs)
    /\ pc' = "loaded"
    /\ UNCHANGED <<call, created, fs, atexit, serialized, opcall, opres>>

\* the interpreter exits: every registered cleanup() runs
\* shutil.rmtree(temp_f, ignore_errors=True) on its own directory
ProcessExit ==
    /\ pc \in {"serialized", "loaded"}
    /\ fs' = [p \in {q \in DOMAIN fs : ~Contains(atexit, q.dir)} |-> fs[p]]
    /\ pc' = "exited"
    /\ UNCHANGED <<call, created, atexit, serialized, loaded, opcall, opres>>

Next ==
    \/ CreateFromTables
    \/ Serialize
    \/ Deserialize
    \/ ProcessExit

Spec == Init /\ [][Next]_vars

----------------------------------------------------------------------------
(* The caller of the operation modules: a graph, then one module on it *)

\* edges tables with and without a weight column; the nodes table is derived
OpsRows == {<<1, 1>>, <<1, 2>>, <<2, 3>>, <<3, 1>>}

OpsArgs ==
    UNION { { Args(gt, [cols |-> cols, rows |-> rows], NoTable, b) :
                gt \in GraphType,
                cols \in {<<b.source, b.target>>},
                rows \in UNION {[1..n -> OpsRows] : n \in 0..MaxRows} }
            \cup
            { Args(gt, [cols |-> cols, rows |-> rows], NoTable, b) :
                gt \in GraphType,
                cols \in {<<b.source, b.target, WEIGHT>>},
                rows \in UNION {[1..n -> {r \o <<w>> : r \in OpsRows, w \in AttrValues}] :
                                 n \in 1..MaxAttrRows} } :
            b \in Bindings }

InitOps ==
    /\ pc = "created"
    /\ \E a \in OpsArgs :
        /\ call = a
        /\ created = create_from_tables(a.graph_type, a.edges_table, a.nodes_table,
                                        a.source_column_name, a.target_column_name,
                                        a.node_id_column_name)
    /\ fs = NoFiles
    /\ atexit = <<>>
    /\ serialized = NotSerialized
    /\ loaded = NotCalled
    /\ opcall = NoOp
    /\ opres = Failed("not called", <<>>)

LibOutcomes == {<<TRUE, TRUE>>, <<FALSE, TRUE>>, <<TRUE, FALSE>>}

Degree_Ranking ==
    /\ pc = "created"
    /\ created.ok
    /\ \E hash_seed \in HashSeeds :
        /\ opcall' = OpCall("degree", TRUE, <<>>, TRUE, None, <<TRUE, TRUE>>,
                          EmptyGraph("none"), NoNames)
        /\ opres' = Degree_Ranking_process(created.graph, hash_seed)
    /\ pc' = "operated"
    /\ created' = [created EXCEPT !.graph = RecordAfter(created.graph, MeasuredGraph(created.graph))]
    /\ UNCHANGED <<call, fs, atexit, serialized, loaded>>

Betweenness_Ranking ==
    /\ pc = "created"
    /\ created.ok
    /\ \E hash_seed \in HashSeeds, lib \in {<<TRUE, TRUE>>, <<FALSE, TRUE>>} :
        /\ opcall' = OpCall("betweenness", TRUE, <<>>, TRUE, None, lib,
                          EmptyGraph("none"), NoNames)
        /\ opres' = Betweenness_Ranking_process(created.graph, lib, hash_seed)
    /\ pc' = "operated"
    /\ created' = [created EXCEPT !.graph = RecordAfter(created.graph, MeasuredGraph(created.graph))]
    /\ UNCHANGED <<call, fs, atexit, serialized, loaded>>

Eigenvector_Ranking ==
    /\ pc = "created"
    /\ created.ok
    /\ \E hash_seed \in HashSeeds, lib \in {<<TRUE, TRUE>>, <<FALSE, TRUE>>} :
        /\ opcall' = OpCall("eigenvector", TRUE, <<>>, TRUE, None, lib,
                          EmptyGraph("none"), NoNames)
        /\ opres' = Eigenvector_Ranking_process(created.graph, 1000, lib, hash_seed)
    /\ pc' = "operated"
    /\ created' = [created EXCEPT !.graph = RecordAfter(created.graph, MeasuredGraph(created.graph))]
    /\ UNCHANGED <<call, fs, atexit, serialized, loaded>>

Closeness_Ranking ==
    /\ pc = "created"
    /\ created.ok
    /\ \E hash_seed \in HashSeeds, lib \in LibOutcomes, wd \in BOOLEAN, wm \in BOOLEAN,
          weight_name \in {<<>>, WEIGHT} :
        /\ opcall' = OpCall("closeness", wd, weight_name, wm, None, lib,
                          EmptyGraph("none"), NoNames)
        /\ opres' = Closeness_Ranking_process(created.graph, wd, weight_name, wm, lib,
                                            hash_seed)
    /\ pc' = "operated"
    /\ created' = [created EXCEPT !.graph = RecordAfter(created.graph, MeasuredGraph(created.graph))]
    /\ UNCHANGED <<call, fs, atexit, serialized, loaded>>

CutPointsList ==
    /\ pc = "created"
    /\ created.ok
    /\ \E hash_seed \in HashSeeds :
        /\ opcall' = OpCall("cut_points", TRUE, <<>>, TRUE, None, <<TRUE, TRUE>>,
                          EmptyGraph("none"), NoNames)
        /\ opres' = CutPointsList_process(created.graph, hash_seed)
    /\ pc' = "operated"
    /\ created' = [created EXCEPT !.graph = RecordAfter(created.graph, as_networkx_graph(created.graph))]
    /\ UNCHANGED <<call, fs, atexit, serialized, loaded>>

\* the partitions the library may answer: least for the unconstrained run,
\* most for the run with cutoff and best_n
ModularityCommunity ==
    /\ pc = "created"
    /\ created.ok
    /\ \E hash_seed \in HashSeeds, lib \in LibOutcomes,
          number_of_communities \in {None} \cup {[is_none |-> FALSE, value |-> n] : n \in 1..2},
          least \in Communities(as_networkx_graph(created.graph)),
          most \in Communities(as_networkx_graph(created.graph)) :
        /\ opcall' = OpCall("modularity", TRUE, <<>>, TRUE, number_of_communities, lib,
                          EmptyGraph("none"), NoNames)
        /\ opres' = ModularityCommunity_process(
                        created.graph, number_of_communities,
                        CommunitySeq(as_networkx_graph(created.graph), least),
                        CommunitySeq(as_networkx_graph(created.graph), most),
                        lib, hash_seed)
    /\ pc' = "operated"
    /\ created' = [created EXCEPT !.graph = RecordAfter(created.graph, as_networkx_graph(created.graph))]
    /\ UNCHANGED <<call, fs, atexit, serialized, loaded>>

\* create_outputs_schema of the modules: the names of the declared outputs
create_outputs_schema(op) ==
    CASE op = "degree" -> {"centrality_network"}
      [] op \in {"betweenness", "eigenvector", "closeness"} ->
            {"network_result", "centrality_network"}
      [] op = "cut_points" -> {"network_result", "cut_network"}
      [] op = "modularity" -> {"modularity_network", "maximum_modularity"}
      [] op = "calculate_nodes_degree" -> {"network_data"}
      [] OTHER -> {}

DegreeRankingModule ==
    /\ pc = "created"
    /\ created.ok
    /\ \E use_weighted \in BOOLEAN, weight_name \in {<<>>, WEIGHT},
          random \in [1..num_rows(nodes(created.graph)) -> {1, 2}] :
        /\ opcall' = OpCall("calculate_nodes_degree", use_weighted, weight_name, TRUE,
                          None, <<TRUE, TRUE>>, EmptyGraph("none"), NoNames)
        /\ opres' = DegreeRankingModule_process(created.graph, use_weighted, weight_name,
                                               random)
    /\ pc' = "operated"
    /\ UNCHANGED <<call, created, fs, atexit, serialized, loaded>>

Query ==
    /\ pc = "created"
    /\ created.ok
    /\ \E answer \in {[ok |-> TRUE, result |-> edges(created.graph)],
                       [ok |-> TRUE, result |-> nodes(created.graph)],
                       [ok |-> FALSE, result |-> EmptyTable]} :
        /\ opcall' = OpCall("query", FALSE, <<>>, FALSE, None, <<TRUE, TRUE>>,
                          EmptyGraph("none"), NoNames)
        /\ opres' = query(created.graph, answer)
    /\ pc' = "queried"
    /\ UNCHANGED <<call, created, fs, atexit, serialized, loaded>>

SpecOps ==
    InitOps /\ [][\/ Query
                  \/ DegreeRankingModule
                  \/ Degree_Ranking
                  \/ Betweenness_Ranking
                  \/ Eigenvector_Ranking
                  \/ Closeness_Ranking
                  \/ CutPointsList
                  \/ ModularityCommunity]_vars

----------------------------------------------------------------------------
(* The caller of create_from_networkx_graph: a graph object read from a file *)

RECURSIVE BuildGraph(_, _, _, _)
BuildGraph(G, pairs, i, attrs) ==
    IF i > Len(pairs) THEN G
    ELSE BuildGraph(add_edge(G, pairs[i][1], pairs[i][2], attrs), pairs, i + 1, attrs)

GraphObjects ==
    { BuildGraph(EmptyGraph(kind), pairs, 1, attrs) :
        kind \in GraphKinds,
        pairs \in UNION {[1..n -> NodeIds \X NodeIds] : n \in 0..MaxRows},
        attrs \in {<<>>, <<[name |-> WEIGHT, value |-> 1]>>} }
    \cup {EmptyGraph("other")}

CreateFromNetworkxGraph ==
    /\ pc = "start"
    /\ \E graph \in GraphObjects, b \in Bindings, hash_seed \in HashSeeds :
        /\ opcall' = OpCall("create_from_networkx_graph", FALSE, <<>>, FALSE, None,
                            <<TRUE, TRUE>>, graph, b)
        /\ LET r == create_from_networkx_graph(graph, b.source, b.target, b.node_id,
                                               hash_seed)
           IN opres' = [ok |-> r.ok, error |-> r.error, outputs |-> {},
                        network |-> r.graph, aux |-> <<>>, calls |-> <<>>]
    /\ pc' = "imported"
    /\ UNCHANGED <<call, created, fs, atexit, serialized, loaded>>

SpecImport == Init /\ [][CreateFromNetworkxGraph]_vars

----------------------------------------------------------------------------
(* modules/create.py: CreateNetworkDataModule.create__network_graph__from__file *)
(*                                                                          *)
(* A file name is the sequence of its characters.  What a reader of the     *)
(* graph library makes of the file is an input: a graph object, or an       *)
(* exception.  The result is [ok, error, outputs, network, aux, calls]: aux *)
(* holds what the error message names, calls the readers invoked.           *)

\* the letters of the extensions that the dispatcher tests for
Ext ==
    [gml |-> <<"g", "m", "l">>,
     gexf |-> <<"g", "e", "x", "f">>,
     graphml |-> <<"g", "r", "a", "p", "h", "m", "l">>,
     pajek |-> <<"p", "a", "j", "e", "k">>,
     net |-> <<"n", "e", "t">>,
     leda |-> <<"l", "e", "d", "a">>,
     graph6 |-> <<"g", "r", "a", "p", "h", "6">>,
     g6 |-> <<"g", "6">>,
     sparse6 |-> <<"s", "p", "a", "r", "s", "e", "6">>,
     s6 |-> <<"s", "6">>]

\* str.endswith
endswith(s, suffix) ==
    /\ Len(s) >= Len(suffix)
    /\ SubSeq(s, Len(s) - Len(suffix) + 1, Len(s)) = suffix

supported_file_estensions ==
    <<Ext.gml, Ext.gexf, Ext.graphml, Ext.pajek, Ext.leda, Ext.graph6, Ext.g6,
      Ext.sparse6, Ext.s6>>

create__network_graph__from__file(file_name, answer, hash_seed) ==
    LET ends(e) == endswith(file_name, <<".">> \o e)
        reader == IF ends(Ext.gml) THEN "read_gml"
                  ELSE IF ends(Ext.gexf) THEN "read_gexf"
                  ELSE IF ends(Ext.graphml) THEN "read_graphml"
                  ELSE IF ends(Ext.pajek) \/ ends(Ext.net) THEN "read_pajek"
                  ELSE IF ends(Ext.leda) THEN "read_leda"
                  ELSE IF ends(Ext.graph6) \/ ends(Ext.g6) THEN "read_graph6"
                  ELSE IF ends(Ext.sparse6) \/ ends(Ext.s6) THEN "read_sparse6"
                  ELSE "none"
        nothing == [file_name |-> <<>>, supported |-> <<>>]
    IN IF reader = "none"
       THEN [ok |-> FALSE, error |-> "KiaraProcessingException", outputs |-> {},
             network |-> NoGraph,
             aux |-> [file_name |-> file_name, supported |-> supported_file_estensions],
             calls |-> <<>>]
       ELSE IF ~answer.ok
       THEN [ok |-> FALSE, error |-> "reader", outputs |-> {}, network |-> NoGraph,
             aux |-> nothing, calls |-> <<reader>>]
       ELSE LET r == create_from_networkx_graph(
                        answer.graph, DEFAULT_SOURCE_COLUMN_NAME,
                        DEFAULT_TARGET_COLUMN_NAME, DEFAULT_NODE_ID_COLUMN_NAME,
                        hash_seed)
            IN [ok |-> r.ok, error |-> r.error, outputs |-> {}, network |-> r.graph,
                aux |-> nothing, calls |-> <<reader>>]

\* file names: a stem, with or without a dot, and the letters of an accepted
\* extension or of another one
CreateFromFile ==
    /\ pc = "start"
    /\ \E file_name \in
            LET stems == {<<>>, <<"a">>, <<"a", ".", "g", "m", "l">>}
                letters == {Ext[e] : e \in DOMAIN Ext}
                             \cup {<<"t", "x", "t">>, <<"G", "M", "L">>, <<"g", "m">>}
            IN {stem \o <<".">> \o l : stem \in stems, l \in letters}
                 \cup {stem \o l : stem \in stems, l \in letters},
          hash_seed \in HashSeeds,
          answer \in
            {[ok |-> TRUE, graph |-> BuildGraph(EmptyGraph(kind), <<pair>>, 1, <<>>)] :
                kind \in GraphKinds, pair \in NodeIds \X NodeIds}
              \cup {[ok |-> FALSE, graph |-> EmptyGraph("none")]} :
        /\ opcall' = [op |-> "create__network_graph__from__file",
                      file_name |-> file_name, answer |-> answer]
        /\ opres' = create__network_graph__from__file(file_name, answer, hash_seed)
    /\ pc' = "filed"
    /\ UNCHANGED <<call, created, fs, atexit, serialized, loaded>>

SpecFile == Init /\ [][CreateFromFile]_vars

----------------------------------------------------------------------------
(* modules/create.py: AssembleGraphFromTablesModule.process                 *)
(*                                                                          *)
(* A Python dict is the sequence of its [key, value] items in insertion     *)
(* order.  The weight of the "mean" strategy is a quotient of two integers, *)
(* kept as [num, den].  The strategy "None" stands for an input not set.    *)
(* The result is [ok, error, outputs, network, aux, calls], aux being the   *)
(* weight table [defined, table] as far as the run has computed it.         *)

ValueOf(d, key) == d[CHOOSE i \in 1..Len(d) : d[i].key = key].value

Put(d, key, value) ==
    IF HasKey(d, key)
    THEN [i \in 1..Len(d) |-> IF d[i].key = key THEN [key |-> key, value |-> value] ELSE d[i]]
    ELSE Append(d, [key |-> key, value |-> value])

\* [[k[0], k[1], v] for k, v in d.items()]
AsTable(d) == [i \in 1..Len(d) |-> <<d[i].key[1], d[i].key[2], d[i].value>>]

\* table.select(columns).to_pylist(), each row as the list of its values
SelectRows(table, columns) ==
    [i \in 1..Len(table.rows) |->
        [k \in 1..Len(columns) |-> table.rows[i][IndexOf(table.cols, columns[k])]]]

\* a Counter that counts every key once, however often it occurs
Counter_Once(items) ==
    LET keys == FirstOccurrences(items)
    IN [i \in 1..Len(keys) |-> [key |-> keys[i], value |-> 1]]

\* collections.Counter(items)
RECURSIVE Counter(_)
Counter(items) ==
    IF items = <<>> THEN <<>>
    ELSE LET front == Counter(SubSeq(items, 1, Len(items) - 1))
             last == items[Len(items)]
         IN Put(front, last, IF HasKey(front, last) THEN ValueOf(front, last) + 1 ELSE 1)

\* def parallel_sum(), from item i of assign_weight on
RECURSIVE parallel_sum_from(_, _, _)
parallel_sum_from(assign_weight, i, empty) ==
    IF i > Len(assign_weight) THEN empty
    ELSE LET key == <<assign_weight[i][1], assign_weight[i][2]>>
             first == IF ~HasKey(empty, key) THEN Put(empty, key, 0) ELSE empty
         IN parallel_sum_from(assign_weight, i + 1,
                              Put(first, key, ValueOf(first, key) + assign_weight[i][3]))

parallel_sum(assign_weight) == parallel_sum_from(assign_weight, 1, <<>>)

\* merge_strategy == "mean": for every pair a with count b, and its sum v,
\* mean_dict[a] = int(b) / int(v), the quotient kept as [num, den]
MeanDict(weight_dict, empty) ==
    [i \in 1..Len(weight_dict) |->
        [key |-> weight_dict[i].key,
         value |-> [num |-> weight_dict[i].value,
                    den |-> ValueOf(empty, weight_dict[i].key)]]]

RECURSIVE minimum_from_First(_, _, _)
minimum_from_First(assign_weight, i, empty) ==
    IF i > Len(assign_weight) THEN empty
    ELSE LET key == <<assign_weight[i][1], assign_weight[i][2]>>
         IN minimum_from_First(assign_weight, i + 1,
                IF ~HasKey(empty, key) THEN Put(empty, key, assign_weight[i][3])
                ELSE empty)

\* merge_strategy == "minimum": the loop from item i on; int(item[2]) of an
\* integer weight is the weight
RECURSIVE minimum_from(_, _, _)
minimum_from(assign_weight, i, empty) ==
    IF i > Len(assign_weight) THEN empty
    ELSE LET key == <<assign_weight[i][1], assign_weight[i][2]>>
             w == assign_weight[i][3]
             first == IF ~HasKey(empty, key) THEN Put(empty, key, w) ELSE empty
         IN minimum_from(assign_weight, i + 1,
                         IF ValueOf(first, key) >= w THEN Put(first, key, w) ELSE first)

\* merge_strategy == "maximum": the loop from item i on
RECURSIVE maximum_from(_, _, _)
maximum_from(assign_weight, i, empty) ==
    IF i > Len(assign_weight) THEN empty
    ELSE LET key == <<assign_weight[i][1], assign_weight[i][2]>>
             w == assign_weight[i][3]
             first == IF ~HasKey(empty, key) THEN Put(empty, key, w) ELSE empty
         IN maximum_from(assign_weight, i + 1,
                         IF ValueOf(first, key) <= w THEN Put(first, key, w) ELSE first)

NoWeights == [defined |-> FALSE, table |-> <<>>]

Weights(table) == [defined |-> TRUE, table |-> table]

\* lines 291-332: the chain of ifs on merge_strategy; none of them matches a
\* strategy that is not set, and weight_dict_table stays unbound
MergedWeights(assign_weight, merge_strategy) ==
    CASE merge_strategy = "" -> Weights(assign_weight)
      [] merge_strategy = "sum" -> Weights(AsTable(parallel_sum(assign_weight)))
      [] merge_strategy = "mean" ->
            \* edge_count = [(e[0], e[1]) for e in assign_weight]
            Weights(AsTable(MeanDict(Counter([i \in 1..Len(assign_weight) |->
                                                SubSeq(assign_weight[i], 1, 2)]),
                                     parallel_sum(assign_weight))))
      [] merge_strategy = "minimum" ->
            Weights(AsTable(minimum_from(assign_weight, 1, <<>>)))
      [] merge_strategy = "maximum" ->
            Weights(AsTable(maximum_from(assign_weight, 1, <<>>)))
      [] OTHER -> NoWeights

AssembleFailed(error, weights) ==
    [ok |-> FALSE, error |-> error, outputs |-> {}, network |-> NoGraph,
     aux |-> weights, calls |-> <<>>]

\* lines 349-358: the edges table goes to create_from_tables as it came in
CreateAndSet(graph_type, edges_table, nodes_table, source, target, node_id, weights) ==
    LET network_graph == create_from_tables(graph_type, Given("kiara", edges_table),
                                            nodes_table, source, target, node_id)
    IN IF ~network_graph.ok
       THEN AssembleFailed(network_graph.error, weights)
       ELSE [ok |-> TRUE, error |-> "", outputs |-> {"network_graph"},
             network |-> network_graph.graph, aux |-> weights, calls |-> <<>>]

\* lines 341-356: the weight table becomes an arrow table and is joined to
\* the edges; the result of the join is dropped
JoinAndCreate(graph_type, edges_table, nodes_table, source, target, node_id, weights, join) ==
    IF ~weights.defined
    THEN AssembleFailed("UnboundLocalError: weight_dict_table", weights)
    ELSE IF join = "raises"
    THEN AssembleFailed("join", weights)
    ELSE CreateAndSet(graph_type, edges_table, nodes_table, source, target, node_id,
                      weights)

\* an optional string input: not set, or set to a string
NotSet == [is_none |-> TRUE, value |-> <<>>]

Set(value) == [is_none |-> FALSE, value |-> value]

Falsy(value) == value.is_none \/ value.value = <<>>

WeightTable_AnyStrategy(edges_table, source, target, weight_column, merge_strategy, callable) ==
    IF Falsy(weight_column) /\ merge_strategy \in {"None", ""}
    THEN [error |-> "KiaraProcessingException: no weights selected", weights |-> NoWeights]
    ELSE IF ~weight_column.is_none /\ ~Contains(edges_table.cols, weight_column.value)
    THEN [error |-> "KiaraProcessingException: weight column not in edges table",
          weights |-> NoWeights]
    ELSE IF ~weight_column.is_none /\ ~callable
    THEN [error |-> "TypeError: arrow_table is not callable", weights |-> NoWeights]
    ELSE IF ~weight_column.is_none
    THEN [error |-> "",
          weights |-> MergedWeights(
                        SelectRows(edges_table, <<source, target, weight_column.value>>),
                        merge_strategy)]
    ELSE [error |-> "",
          weights |-> Weights(AsTable(Counter(SelectRows(edges_table, <<source, target>>))))]

\* lines 262-339.  The value of edges_table.arrow_table is called at line
\* 278 and read uncalled everywhere else; the class of the table belongs to
\* the tabular plugin, so the call either raises (callable is FALSE) or
\* returns the table.
WeightTable(edges_table, source, target, weight_column, merge_strategy, callable) ==
    IF Falsy(weight_column) /\ merge_strategy \in {"None", ""}
    THEN [error |-> "KiaraProcessingException: no weights selected", weights |-> NoWeights]
    ELSE IF Falsy(weight_column) /\ merge_strategy # "sum"
    THEN [error |-> "KiaraProcessingException: no weight column", weights |-> NoWeights]
    ELSE IF ~weight_column.is_none /\ ~Contains(edges_table.cols, weight_column.value)
    THEN [error |-> "KiaraProcessingException: weight column not in edges table",
          weights |-> NoWeights]
    ELSE IF ~weight_column.is_none /\ ~callable
    THEN [error |-> "TypeError: arrow_table is not callable", weights |-> NoWeights]
    ELSE IF ~weight_column.is_none
    THEN [error |-> "",
          weights |-> MergedWeights(
                        SelectRows(edges_table, <<source, target, weight_column.value>>),
                        merge_strategy)]
    ELSE [error |-> "",
          weights |-> Weights(AsTable(Counter(SelectRows(edges_table, <<source, target>>))))]

WeightedGraphFromTables(graph_type, edges_table, nodes_table, source, target, node_id, computed, join) ==
    IF computed.error # ""
    THEN AssembleFailed(computed.error, NoWeights)
    ELSE JoinAndCreate(graph_type, edges_table, nodes_table, source, target, node_id,
                       computed.weights, join)

AssembleGraphFromTablesModule_process(graph_type, edges_table, nodes_table, source_column, target_column, node_id_column, is_weighted, weight_column, merge_strategy, callable, join) ==
    IF node_id_column = <<>>
    THEN AssembleFailed("KiaraProcessingException: no node id column name", NoWeights)
    ELSE IF nodes_table.given /\ ~Contains(nodes_table.cols, node_id_column)
    THEN AssembleFailed("KiaraProcessingException: id column not in nodes table", NoWeights)
    ELSE IF source_column = <<>>
    THEN AssembleFailed("KiaraProcessingException: no source column name", NoWeights)
    ELSE IF target_column = <<>>
    THEN AssembleFailed("KiaraProcessingException: no target column name", NoWeights)
    ELSE IF ~Contains(edges_table.cols, source_column)
    THEN AssembleFailed("KiaraProcessingException: source column not in edges table",
                        NoWeights)
    ELSE IF ~Contains(edges_table.cols, target_column)
    THEN AssembleFailed("KiaraProcessingException: target column not in edges table",
                        NoWeights)
    ELSE IF ~is_weighted
    THEN CreateAndSet(graph_type, edges_table, nodes_table, source_column, target_column,
                      node_id_column, NoWeights)
    ELSE WeightedGraphFromTables(
            graph_type, edges_table, nodes_table, source_column, target_column,
            node_id_column,
            WeightTable(edges_table, source_column, target_column, weight_column,
                        merge_strategy, callable),
            join)

----------------------------------------------------------------------------
(* The caller of the assembly module *)

\* rows of an edges table without a weight column handed to the module

AsmPairs == {<<1, 2>>, <<2, 1>>}


AsmTables ==
    {[cols |-> <<DEFAULT_SOURCE_COLUMN_NAME, DEFAULT_TARGET_COLUMN_NAME>>, rows |-> rows] :
        rows \in UNION {[1..n -> AsmPairs] : n \in 0..(MaxRows + 1)}}
    \cup {[cols |-> <<DEFAULT_SOURCE_COLUMN_NAME, DEFAULT_TARGET_COLUMN_NAME, WEIGHT>>,
           rows |-> rows] :
        rows \in UNION {[1..n -> {r \o <<w>> : r \in AsmPairs, w \in {2, 4}}] :
                         n \in 0..MaxRows}}

AsmInput(args, is_weighted, weight_column, merge_strategy, callable, join) ==
    [args |-> args, is_weighted |-> is_weighted, weight_column |-> weight_column,
     merge_strategy |-> merge_strategy, callable |-> callable, join |-> join]

\* weighted graphs: every weight column, every strategy, every library outcome
WeightInputs ==
    { AsmInput(Args(gt, e, NoTable, b), TRUE, wc, ms, lib[1], lib[2]) :
        gt \in GraphType,
        e \in AsmTables,
        b \in {b \in Bindings : b.source = DEFAULT_SOURCE_COLUMN_NAME},
        wc \in {NotSet, Set(<<>>), Set(WEIGHT), Set(LABEL)},
        ms \in {"None", "", "sum", "mean", "minimum", "maximum"},
        lib \in {<<TRUE, "raises">>, <<TRUE, "returns">>, <<FALSE, "raises">>} }

\* unweighted graphs: every column layout of the two tables, names left empty
GuardInputs ==
    { AsmInput(Args(gt, e, n, b), FALSE, NotSet, "None", FALSE, "raises") :
        gt \in GraphType,
        e \in UNION {OnesTables(cols) : cols \in EdgeColumnLists},
        n \in {NoTable} \cup
              {Given("kiara", t) : t \in UNION {OnesTables(cols) : cols \in NodeColumnLists}},
        b \in Bindings \cup
              { [source |-> <<>>, target |-> TGT, node_id |-> ID],
                [source |-> SRC, target |-> <<>>, node_id |-> ID],
                [source |-> SRC, target |-> TGT, node_id |-> <<>>] } }


Assemble ==
    /\ pc = "start"
    /\ \E a \in WeightInputs \cup GuardInputs :
        /\ call' = a.args
        /\ opcall' = [op |-> "assemble", is_weighted |-> a.is_weighted,
                      weight_column |-> a.weight_column,
                      merge_strategy |-> a.merge_strategy,
                      callable |-> a.callable, join |-> a.join]
        /\ opres' = AssembleGraphFromTablesModule_process(
                        a.args.graph_type, TableOf(a.args.edges_table), a.args.nodes_table,
                        a.args.source_column_name, a.args.target_column_name,
                        a.args.node_id_column_name, a.is_weighted, a.weight_column,
                        a.merge_strategy, a.callable, a.join)
    /\ pc' = "assembled"
    /\ UNCHANGED <<created, fs, atexit, serialized, loaded>>

SpecAssemble == Init /\ [][Assemble]_vars

----------------------------------------------------------------------------
(* The callers of serialize and to__python_object with values of their own: *)
(* a NetworkGraph built with its constructor from any tables under any      *)
(* table ids, and serialized data with any keys and chunks.                 *)

\* records of one or two tables, under table ids that are valid, empty or
\* hold the split marker, with or without an empty column name
\* NetworkGraph(graph_type=.., tables={id: table, ..}, ..) of one table or
\* of two tables with different ids
Records ==
    {[graph_type |-> "directed",
      source_column_name |-> DEFAULT_SOURCE_COLUMN_NAME,
      target_column_name |-> DEFAULT_TARGET_COLUMN_NAME,
      node_id_column_name |-> DEFAULT_NODE_ID_COLUMN_NAME,
      tables |-> tables] :
        tables \in
            LET layouts == {<<DEFAULT_SOURCE_COLUMN_NAME, DEFAULT_TARGET_COLUMN_NAME>>,
                            <<DEFAULT_SOURCE_COLUMN_NAME, <<>>>>,
                            <<DEFAULT_NODE_ID_COLUMN_NAME>>,
                            << <<>> >>}
                entries == {[id |-> id, table |-> t] :
                                id \in {EDGES_TABLE_NAME, NODES_TABLE_NAME, <<>>,
                                        <<"a", TABLE_COLUMN_SPLIT_MARKER, "b">>},
                                t \in UNION {OnesTables(c) : c \in layouts}}
            IN {<<e>> : e \in entries}
               \cup {ee \in {<<e1, e2>> : e1 \in entries, e2 \in entries} :
                        ee[1].id # ee[2].id}}

SerializeRecord ==
    /\ pc = "start"
    /\ \E data \in Records :
        LET r == serialize(data, 1, fs)
        IN /\ created' = Returned(data, FALSE)
           /\ serialized' = [ok |-> r.ok, error |-> r.error, chunk_map |-> r.chunk_map,
                             temp_f |-> r.temp_f, registered |-> r.registered]
           /\ fs' = r.files
           /\ atexit' = IF r.registered THEN Append(atexit, 1) ELSE atexit
    /\ pc' = "stored"
    /\ UNCHANGED <<call, loaded, opcall, opres>>

\* the column files of a stored graph with the edge (1, 2)
StoredFiles ==
    [p \in {FilePath(1, EDGES_TABLE_NAME, c) :
                c \in {DEFAULT_SOURCE_COLUMN_NAME, DEFAULT_TARGET_COLUMN_NAME,
                       DEFAULT_NODE_ID_COLUMN_NAME}} |->
        [column_name |-> p.name,
         values |-> IF p.name = DEFAULT_SOURCE_COLUMN_NAME THEN <<1>>
                    ELSE IF p.name = DEFAULT_TARGET_COLUMN_NAME THEN <<2>>
                    ELSE <<1, 2>>]]

\* serialized data: up to MaxKeys keys in any order, out of three column keys
\* and a key without marker, each with no, one or two chunks, and then no
\* metadata or metadata of a graph type
SerializedData ==
    LET chunk(key, type) ==
            [type |-> "file", file |-> FilePath(1, <<>>, <<key[Len(key)]>>), codec |-> "raw",
             inline_data |-> [graph_type |-> type, source_column_name |-> <<>>,
                              target_column_name |-> <<>>, node_id_column_name |-> <<>>]]
        metadata(type) ==
            [key |-> GRAPH_METADATA_KEY,
             chunks |-> <<[type |-> "inline-json", file |-> [dir |-> 0, name |-> <<>>],
                           codec |-> "json",
                           inline_data |->
                              [graph_type |-> type,
                               source_column_name |-> DEFAULT_SOURCE_COLUMN_NAME,
                               target_column_name |-> DEFAULT_TARGET_COLUMN_NAME,
                               node_id_column_name |-> DEFAULT_NODE_ID_COLUMN_NAME]]>>]
        DataKeys ==
            {ColumnKey(EDGES_TABLE_NAME, DEFAULT_SOURCE_COLUMN_NAME),
             ColumnKey(EDGES_TABLE_NAME, DEFAULT_TARGET_COLUMN_NAME),
             ColumnKey(NODES_TABLE_NAME, DEFAULT_NODE_ID_COLUMN_NAME),
             EDGES_TABLE_NAME \o DEFAULT_SOURCE_COLUMN_NAME}
        columns ==
            UNION {{[i \in 1..n |->
                        [key |-> keys[i],
                         chunks |-> [k \in 1..counts[i] |-> chunk(keys[i], "none")]]] :
                      keys \in {ks \in [1..n -> DataKeys] :
                                  \A i, j \in 1..n : ks[i] = ks[j] => i = j},
                      counts \in [1..n -> 0..2]} :
                   n \in 0..MaxKeys}
    IN columns
       \cup {Append(c, metadata(type)) : c \in columns, type \in {"directed", "tree"}}

LoadData ==
    /\ pc = "start"
    /\ \E data \in SerializedData :
        /\ serialized' = [ok |-> TRUE, error |-> "", chunk_map |-> data, temp_f |-> 1,
                          registered |-> FALSE]
        /\ fs' = StoredFiles
        /\ loaded' = to__python_object(data, StoredFiles)
    /\ pc' = "read"
    /\ UNCHANGED <<call, created, atexit, opcall, opres>>

SpecStore == Init /\ [][SerializeRecord \/ LoadData]_vars

----------------------------------------------------------------------------
(* Claims about create_from_tables *)

Called == pc \in {"created", "serialized", "loaded"}

EdgesColumnAbsent ==
    \/ ~Contains(call.edges_table.cols, call.source_column_name)
    \/ ~Contains(call.edges_table.cols, call.target_column_name)

\* C2: whenever the configured source or target column is not a column of the
\* edges table, create_from_tables raises a schema error and returns no
\* graph; the error names an absent configured column and lists the edges
\* table's columns; no node table has been derived by then.
C2_EdgesSchemaError ==
    (Called /\ EdgesColumnAbsent) =>
        /\ ~created.ok
        /\ created.graph = NoGraph
        /\ created.error = "schema: edges"
        /\ created.missing \in {call.source_column_name, call.target_column_name}
        /\ ~Contains(call.edges_table.cols, created.missing)
        /\ created.available = call.edges_table.cols
        /\ ~created.derived

\* C2 witness: the source column is there, the target column is not, and the
\* call has raised naming the target column.
C2_Witness ==
    /\ Called
    /\ Contains(call.edges_table.cols, call.source_column_name)
    /\ ~Contains(call.edges_table.cols, call.target_column_name)
    /\ created.missing = call.target_column_name
    /\ Len(call.edges_table.rows) > 0

\* C3 (as claimed): every call that supplies a nodes table without the
\* node id column fails and returns no graph, a table with zero rows included.
C3_Claim ==
    (Called /\ call.nodes_table.given
            /\ ~Contains(call.nodes_table.cols, call.node_id_column_name)) =>
        (~created.ok /\ created.graph = NoGraph)

\* C4: without a nodes table the result's nodes table has the one column
\* node_id_column_name, and its values are strictly ascending and are exactly
\* the values of the edges table's source and target columns.
C4_DerivedNodes ==
    (Called /\ ~call.nodes_table.given /\ ~EdgesColumnAbsent) =>
        LET n == nodes(created.graph)
            e == call.edges_table
            ids == Column(n, call.node_id_column_name)
        IN /\ created.ok
           /\ created.derived
           /\ n.cols = <<call.node_id_column_name>>
           /\ \A i \in 1..Len(n.rows) : Len(n.rows[i]) = 1
           /\ \A i, j \in 1..Len(ids) : i < j => ids[i] < ids[j]
           /\ Range(ids) = Range(Column(e, call.source_column_name))
                            \cup Range(Column(e, call.target_column_name))

\* C4 witness: an edges table whose endpoints first occur in descending
\* order and repeat, and the derived table of its two distinct nodes.
C4_Witness ==
    /\ Called
    /\ ~call.nodes_table.given
    /\ created.ok
    /\ Len(call.edges_table.rows) = 2
    /\ call.edges_table.rows[1] = <<3, 1>>
    /\ call.edges_table.rows[2] = <<3, 1>>
    /\ nodes(created.graph).rows = << <<1>>, <<3>> >>

----------------------------------------------------------------------------
(* Claims about serialization *)

\* C1 (as claimed): deserializing the serialized form of a graph built by
\* create_from_tables succeeds and yields the same graph type, the same
\* column name bindings and the same two tables.
C1_Claim ==
    (pc = "loaded") => (loaded.ok /\ loaded.graph = created.graph)

----------------------------------------------------------------------------
(* Claims about create_from_networkx_graph *)

Imported == pc = "imported"

\* the graph type the four shapes stand for
ShapeOf(graph) ==
    IF is_directed(graph) /\ is_multigraph(graph) THEN "directed_multi"
    ELSE IF is_multigraph(graph) THEN "undirected_multi"
    ELSE IF is_directed(graph) THEN "directed"
    ELSE "undirected"

\* C5: a graph object of none of the four shapes makes the construction fail
\* for its type, with no graph returned; a graph object of one of the four
\* shapes is never refused for its type, and every graph returned for it has
\* the type of its shape: directed_multi for a directed multigraph, then
\* undirected_multi, directed, undirected.
C5_Classification ==
    Imported =>
        IF opcall.graph.kind \notin GraphKinds
        THEN /\ ~opres.ok
             /\ opres.network = NoGraph
             /\ opres.error = "invalid graph type"
        ELSE /\ opres.error # "invalid graph type"
             /\ opres.ok => opres.network.graph_type = ShapeOf(opcall.graph)

\* C5 witness: a directed multigraph with two parallel edges has become a
\* graph of type directed_multi.
C5_Witness ==
    /\ Imported
    /\ opcall.graph.kind = "MultiDiGraph"
    /\ Len(opcall.graph.edges) = 2
    /\ opcall.graph.edges[1].u = opcall.graph.edges[2].u
    /\ opcall.graph.edges[1].v = opcall.graph.edges[2].v
    /\ opres.ok
    /\ opres.network.graph_type = "directed_multi"
    /\ num_rows(edges(opres.network)) = 2

----------------------------------------------------------------------------
(* Claims about the operation modules *)

Operated == pc = "operated"

\* the module got as far as re-deriving a graph from the graph object
Rederived ==
    /\ Operated
    /\ opres.error \notin {"library", "library: not implemented for directed type",
                           "data frame: length mismatch", "unpack: edge keys are pairs",
                           "key: weight"}

\* C6 (as claimed): every module that gets to re-derive a graph succeeds in
\* it, and the graph it returns has the graph type and the source, target
\* and node id column names of the graph it was given.
C6_Claim ==
    Rederived =>
        /\ opres.ok
        /\ opres.network.graph_type = created.graph.graph_type
        /\ opres.network.source_column_name = created.graph.source_column_name
        /\ opres.network.target_column_name = created.graph.target_column_name
        /\ opres.network.node_id_column_name = created.graph.node_id_column_name

\* the graph object as_networkx_graph has made of the module's input: the
\* first graph the cut point and modularity modules hand to the library
Projected == opres.calls[1].graph

HasProjected ==
    /\ Operated
    /\ opcall.op \in {"cut_points", "modularity"}
    /\ opres.calls # <<>>

\* the columns of a row other than the columns in keys, as attributes
RemainingColumns(cols, row, keys) ==
    LET kept == SelectSeq([i \in 1..Len(cols) |-> i], LAMBDA i : ~Contains(keys, cols[i]))
    IN [k \in 1..Len(kept) |-> [name |-> cols[kept[k]], value |-> row[kept[k]]]]

\* C7 (as claimed): the graph object is of the kind of the graph type; every
\* row of the nodes table is a node under its node id whose attributes are
\* the row's other columns; every row of the edges table is an edge between
\* its source and its target whose attributes are the row's other columns.
C7_Claim ==
    HasProjected =>
        LET g == created.graph
            G == Projected
        IN /\ G.kind = GraphKindOf(g.graph_type)
           /\ \A i \in 1..Len(nodes(g).rows) :
                LET row == nodes(g).rows[i]
                    n == row[IndexOf(nodes(g).cols, g.node_id_column_name)]
                IN /\ HasNode(G, n)
                   /\ NodeAttrs(G, n) = RemainingColumns(nodes(g).cols, row,
                                                       <<g.node_id_column_name>>)
           /\ \A i \in 1..Len(edges(g).rows) :
                LET row == edges(g).rows[i]
                    u == row[IndexOf(edges(g).cols, g.source_column_name)]
                    v == row[IndexOf(edges(g).cols, g.target_column_name)]
                IN \E k \in 1..Len(G.edges) :
                    /\ G.edges[k].u = u
                    /\ G.edges[k].v = v
                    /\ G.edges[k].attrs =
                        RemainingColumns(edges(g).cols, row,
                                         <<g.source_column_name, g.target_column_name>>)

\* C8 (as claimed): no graph that a centrality module hands to a measure of
\* the library, weighted or not, has an edge from a node to itself.
C8_Claim ==
    (Operated /\ opcall.op \in {"degree", "betweenness", "eigenvector", "closeness"}) =>
        \A c \in 1..Len(opres.calls) :
            \A k \in 1..Len(opres.calls[c].graph.edges) :
                opres.calls[c].graph.edges[k].u # opres.calls[c].graph.edges[k].v

----------------------------------------------------------------------------
(* Claims about the assembly module *)

Assembled == pc = "assembled"

\* the (source, target) pair of row r of the edges table handed in
PairOfRow(r) ==
    <<call.edges_table.rows[r][IndexOf(call.edges_table.cols, call.source_column_name)],
      call.edges_table.rows[r][IndexOf(call.edges_table.cols, call.target_column_name)]>>

RowsOfPair(pair) == {r \in 1..Len(call.edges_table.rows) : PairOfRow(r) = pair}

PairsOfEdges == {PairOfRow(r) : r \in 1..Len(call.edges_table.rows)}

RECURSIVE SumOfWeights(_)
SumOfWeights(rows) ==
    IF rows = {}
    THEN 0
    ELSE LET r == CHOOSE x \in rows : TRUE
         IN call.edges_table.rows[r][IndexOf(call.edges_table.cols,
                                             opcall.weight_column.value)]
            + SumOfWeights(rows \ {r})

\* the weight table has one entry for every pair of the edges table
OneEntryPerPair(table) ==
    /\ {<<table[i][1], table[i][2]>> : i \in 1..Len(table)} = PairsOfEdges
    /\ \A i, j \in 1..Len(table) :
        (table[i][1] = table[j][1] /\ table[i][2] = table[j][2]) => i = j

\* the module counts the rows: weighted, no weight column, strategy "sum",
\* and the source and target columns are columns of the edges table
CountsRows ==
    /\ Assembled
    /\ opcall.is_weighted
    /\ opcall.weight_column.is_none
    /\ opcall.merge_strategy = "sum"
    /\ Contains(call.edges_table.cols, call.source_column_name)
    /\ Contains(call.edges_table.cols, call.target_column_name)

MeansComputed ==
    /\ Assembled
    /\ opcall.is_weighted
    /\ opcall.weight_column = Set(WEIGHT)
    /\ opcall.merge_strategy = "mean"
    /\ opres.aux.defined

\* C10 (as claimed): with a weight column and the strategy "mean", the
\* weight computed for every distinct (source, target) pair is the sum of
\* the weights of the rows with that pair divided by the number of these
\* rows.
C10_Claim ==
    MeansComputed =>
        /\ OneEntryPerPair(opres.aux.table)
        /\ \A i \in 1..Len(opres.aux.table) :
            LET rows == RowsOfPair(<<opres.aux.table[i][1], opres.aux.table[i][2]>>)
                mean == opres.aux.table[i][3]
            IN mean.num * Cardinality(rows) = SumOfWeights(rows) * mean.den

\* the weight column's value in row r of the edges table handed in
WeightOfRow(r) ==
    call.edges_table.rows[r][IndexOf(call.edges_table.cols, opcall.weight_column.value)]

\* the module has merged the weights of a weight column by an extreme
ExtremesComputed ==
    /\ Assembled
    /\ opcall.is_weighted
    /\ opcall.weight_column = Set(WEIGHT)
    /\ opcall.merge_strategy \in {"minimum", "maximum"}
    /\ opres.aux.defined

C12_Claim ==
    (Assembled /\ opcall.is_weighted /\ opres.ok) =>
        LET e == edges(opres.network)
        IN /\ Contains(e.cols, Str("weight"))
           /\ \A r \in 1..Len(e.rows) :
                \E i \in 1..Len(opres.aux.table) :
                    /\ opres.aux.table[i][1] = e.rows[r][IndexOf(e.cols, call.source_column_name)]
                    /\ opres.aux.table[i][2] = e.rows[r][IndexOf(e.cols, call.target_column_name)]
                    /\ IF opcall.merge_strategy = "mean" /\ ~opcall.weight_column.is_none
                       THEN opres.aux.table[i][3].num =
                                e.rows[r][IndexOf(e.cols, Str("weight"))]
                                * opres.aux.table[i][3].den
                       ELSE opres.aux.table[i][3] =
                                e.rows[r][IndexOf(e.cols, Str("weight"))]

\* the three misconfigurations of a weighted assembly
NoWeightSource ==
    Falsy(opcall.weight_column) /\ opcall.merge_strategy \in {"None", ""}

NoColumnAndNotSum ==
    Falsy(opcall.weight_column) /\ opcall.merge_strategy # "sum"

WeightColumnAbsent ==
    /\ ~opcall.weight_column.is_none
    /\ ~Contains(call.edges_table.cols, opcall.weight_column.value)

\* the node id, source and target inputs have passed the module's checks
NamesAccepted ==
    /\ call.node_id_column_name # <<>>
    /\ call.nodes_table.given =>
            Contains(call.nodes_table.cols, call.node_id_column_name)
    /\ call.source_column_name # <<>>
    /\ call.target_column_name # <<>>
    /\ ~EdgesColumnAbsent

\* C13: a weighted assembly with neither a weight column nor a strategy,
\* or with no weight column and a strategy other than "sum", or with a
\* weight column that is not a column of the edges table, raises a
\* processing exception and sets no output; when the other inputs are
\* accepted, the exception is the one of the weight checks.
C13_WeightMisconfigured ==
    (Assembled /\ opcall.is_weighted
               /\ (NoWeightSource \/ NoColumnAndNotSum \/ WeightColumnAbsent)) =>
        /\ ~opres.ok
        /\ opres.outputs = {}
        /\ opres.network = NoGraph
        /\ opres.error \in
             {"KiaraProcessingException: no node id column name",
              "KiaraProcessingException: id column not in nodes table",
              "KiaraProcessingException: no source column name",
              "KiaraProcessingException: no target column name",
              "KiaraProcessingException: source column not in edges table",
              "KiaraProcessingException: target column not in edges table",
              "KiaraProcessingException: no weights selected",
              "KiaraProcessingException: no weight column",
              "KiaraProcessingException: weight column not in edges table"}
        /\ NamesAccepted =>
             opres.error =
                IF NoWeightSource THEN "KiaraProcessingException: no weights selected"
                ELSE IF NoColumnAndNotSum THEN "KiaraProcessingException: no weight column"
                ELSE "KiaraProcessingException: weight column not in edges table"

\* C13 witness: no weight column and the strategy "mean" on an edges table
\* with rows: the module has raised for the missing weight column.
C13_Witness ==
    /\ Assembled
    /\ opcall.is_weighted
    /\ opcall.weight_column.is_none
    /\ opcall.merge_strategy = "mean"
    /\ NamesAccepted
    /\ Len(call.edges_table.rows) > 0
    /\ opres.error = "KiaraProcessingException: no weight column"
    /\ opres.outputs = {}

----------------------------------------------------------------------------
(* Claims about the cut point and modularity modules *)

\* the (source, target) pairs and the node ids of the graph handed to a module
InputPairs ==
    LET e == edges(created.graph)
    IN {<<e.rows[r][IndexOf(e.cols, created.graph.source_column_name)],
          e.rows[r][IndexOf(e.cols, created.graph.target_column_name)]>> :
            r \in 1..Len(e.rows)}

InputNodes ==
    Range(Column(nodes(created.graph), created.graph.node_id_column_name))
        \cup {p[1] : p \in InputPairs} \cup {p[2] : p \in InputPairs}

\* the nodes connected to the nodes in seen once the nodes in gone are removed
RECURSIVE InputReach(_, _)
InputReach(seen, gone) ==
    LET more == {m \in InputNodes \ (seen \cup gone) :
                    \E p \in InputPairs : \/ p[1] \in seen /\ p[2] = m
                                          \/ p[2] \in seen /\ p[1] = m}
    IN IF more = {} THEN seen ELSE InputReach(seen \cup more, gone)

InputComponents(gone) == {InputReach({n}, gone) : n \in InputNodes \ gone}

\* the nodes whose removal increases the number of connected components
InputCutPoints ==
    {n \in InputNodes :
        Cardinality(InputComponents({n})) > Cardinality(InputComponents({}))}

CutPointsAsked ==
    /\ Operated
    /\ opcall.op = "cut_points"
    /\ created.graph.graph_type = "undirected"

\* C14 (as claimed): the cut point module, given an undirected graph,
\* returns the list of exactly the articulation points of the graph and a
\* graph whose nodes are the nodes of the input, every one of them with
\* "Cut Point" = "Yes" if it is in the list and "No" otherwise.
C14_Claim ==
    CutPointsAsked =>
        /\ opres.ok
        /\ Range(opres.aux) = InputCutPoints
        /\ LET n == nodes(opres.network)
           IN /\ InputNodes # {} => Contains(n.cols, Str("Cut Point"))
              /\ Range(Column(n, opres.network.node_id_column_name)) = InputNodes
              /\ \A r \in 1..Len(n.rows) :
                    n.rows[r][IndexOf(n.cols, Str("Cut Point"))] =
                        IF n.rows[r][IndexOf(n.cols, opres.network.node_id_column_name)]
                                \in Range(opres.aux)
                        THEN "Yes" ELSE "No"

\* the modularity module has got the library's answers
CommunitiesFound ==
    /\ Operated
    /\ opcall.op = "modularity"
    /\ opres.error # "library"

\* the modularity_group values of the nodes table the module returns
GroupsAssigned ==
    LET n == nodes(opres.network)
    IN {n.rows[r][IndexOf(n.cols, Str("modularity_group"))] : r \in 1..Len(n.rows)}

\* C15 (as claimed): the modularity module returns a graph and a maximum
\* modularity.  With no number of communities, every node of the input has
\* one group number, the group numbers are 0..maximum_modularity-1, and
\* maximum_modularity is the number of distinct group numbers.  With a
\* number n, the partition comes from a run with cutoff = best_n = n and
\* maximum_modularity is the number of communities of a second run without
\* these arguments.
C15_Claim ==
    CommunitiesFound =>
        /\ opres.ok
        /\ LET n == nodes(opres.network)
           IN /\ Range(Column(n, opres.network.node_id_column_name)) = InputNodes
              /\ InputNodes # {} => Contains(n.cols, Str("modularity_group"))
              /\ InputNodes # {} =>
                    \A r \in 1..Len(n.rows) :
                        \E k \in 1..Len(opres.calls[1].answer) :
                            /\ n.rows[r][IndexOf(n.cols, opres.network.node_id_column_name)]
                                    \in opres.calls[1].answer[k]
                            /\ n.rows[r][IndexOf(n.cols, Str("modularity_group"))] = k - 1
        /\ IF opcall.number_of_communities.is_none
           THEN /\ Len(opres.calls) = 1
                /\ InputNodes # {} =>
                    /\ GroupsAssigned = 0..(opres.aux[1] - 1)
                    /\ Cardinality(GroupsAssigned) = opres.aux[1]
           ELSE /\ Len(opres.calls) = 2
                /\ opres.calls[1].cutoff = opcall.number_of_communities
                /\ opres.calls[1].best_n = opcall.number_of_communities
                /\ opres.calls[2].cutoff = None
                /\ opres.calls[2].best_n = None
                /\ opres.aux[1] = Len(opres.calls[2].answer)

----------------------------------------------------------------------------
(* Claims about the serialized form *)

Serialized == pc \in {"serialized", "loaded"}

\* the (table id, column name) pairs of the graph that was serialized
TableColumns ==
    UNION {{<<created.graph.tables[t].id, created.graph.tables[t].table.cols[c]>> :
                c \in 1..Len(created.graph.tables[t].table.cols)} :
           t \in 1..Len(created.graph.tables)}

\* the chunks stored under a key of the chunk map
ChunksUnder(key) ==
    {serialized.chunk_map[i].chunks : i \in {j \in 1..Len(serialized.chunk_map) :
                                                serialized.chunk_map[j].key = key}}

\* C16: the chunk map of a serialized graph has one key
\* <table><MARKER><column> for every column of the edges and the nodes
\* table, holding one chunk of type file and codec raw, one key
\* graph_metadata holding one inline-json chunk with the graph type and the
\* three column names of the graph, and no other key.
C16_ChunkMap ==
    (Serialized /\ serialized.ok) =>
        /\ {serialized.chunk_map[i].key : i \in 1..Len(serialized.chunk_map)} =
                {p[1] \o <<"MARKER">> \o p[2] : p \in TableColumns}
                    \cup {<<"graph_metadata">>}
        /\ Len(serialized.chunk_map) = Cardinality(TableColumns) + 1
        /\ \A p \in TableColumns :
                \A chunks \in ChunksUnder(p[1] \o <<"MARKER">> \o p[2]) :
                    /\ Len(chunks) = 1
                    /\ chunks[1].type = "file"
                    /\ chunks[1].codec = "raw"
        /\ \A chunks \in ChunksUnder(<<"graph_metadata">>) :
                /\ Len(chunks) = 1
                /\ chunks[1].type = "inline-json"
                /\ chunks[1].codec = "json"
                /\ chunks[1].inline_data =
                        [graph_type |-> created.graph.graph_type,
                         source_column_name |-> created.graph.source_column_name,
                         target_column_name |-> created.graph.target_column_name,
                         node_id_column_name |-> created.graph.node_id_column_name]

\* C16 witness: a graph whose two tables both have a column "label" has
\* been serialized into five column keys and the metadata key.
C16_Witness ==
    /\ Serialized
    /\ serialized.ok
    /\ Contains(edges(created.graph).cols, LABEL)
    /\ Contains(nodes(created.graph).cols, LABEL)
    /\ Len(serialized.chunk_map) = 6
    /\ serialized.chunk_map[6].key = GRAPH_METADATA_KEY

Stored == pc = "stored"

\* a table id of the record is empty or contains the split marker
TableIdViolated ==
    \E t \in 1..Len(created.graph.tables) :
        \/ created.graph.tables[t].id = <<>>
        \/ \E k \in 1..Len(created.graph.tables[t].id) :
                created.graph.tables[t].id[k] = "MARKER"

\* a column name of a table of the record is empty
ColumnNameEmpty ==
    \E t \in 1..Len(created.graph.tables) :
        \E c \in 1..Len(created.graph.tables[t].table.cols) :
            created.graph.tables[t].table.cols[c] = <<>>

\* C17: serializing a record with an empty table id, a table id containing
\* the split marker or an empty column name fails and gives no serialized
\* value; when a table id is at fault, no temporary directory has been
\* allocated, no cleanup registered and no file written.
C17_SerializeRefuses ==
    (Stored /\ (TableIdViolated \/ ColumnNameEmpty)) =>
        /\ ~serialized.ok
        /\ serialized.chunk_map = <<>>
        /\ TableIdViolated =>
            /\ serialized.temp_f = 0
            /\ ~serialized.registered
            /\ atexit = <<>>
            /\ fs = NoFiles

\* C17 witness: an edges table with its two columns, followed by a table
\* whose id contains the split marker: refused with nothing written.
C17_Witness ==
    /\ Stored
    /\ Len(created.graph.tables) = 2
    /\ created.graph.tables[1].id = EDGES_TABLE_NAME
    /\ Len(created.graph.tables[1].table.cols) = 2
    /\ ~ColumnNameEmpty
    /\ Contains(created.graph.tables[2].id, "MARKER")
    /\ ~serialized.ok
    /\ fs = NoFiles

Read == pc = "read"

\* the keys of the data handed to the deserializer, graph_metadata left out
ColumnEntries ==
    {i \in 1..Len(serialized.chunk_map) :
        serialized.chunk_map[i].key # GRAPH_METADATA_KEY}

\* a key without the split marker, or a column key without exactly one chunk
Malformed ==
    \E i \in ColumnEntries :
        \/ \A k \in 1..Len(serialized.chunk_map[i].key) :
                serialized.chunk_map[i].key[k] # "MARKER"
        \/ Len(serialized.chunk_map[i].chunks) # 1

MetadataGiven ==
    \E i \in 1..Len(serialized.chunk_map) :
        serialized.chunk_map[i].key = GRAPH_METADATA_KEY

MetadataTypeOf ==
    serialized.chunk_map[Len(serialized.chunk_map)].chunks[1].inline_data.graph_type

\* C18: deserializing data in which a key other than graph_metadata lacks the
\* split marker, or a column key has a number of chunks other than one, fails
\* and gives no graph; with readable metadata the failure is that of the key
\* check or of the chunk-count assertion. The metadata is read first: data
\* without it, or with a graph type that is none of the four, fails on the
\* metadata whatever its column keys are.
C18_DeserializeRefuses ==
    Read =>
        /\ Malformed =>
            /\ ~loaded.ok
            /\ loaded.graph = NoGraph
            /\ (MetadataGiven /\ MetadataTypeOf \in GraphType) =>
                  loaded.error \in {"format: key without marker",
                                    "assert: number of chunks"}
        /\ ~MetadataGiven => loaded.error = "no graph_metadata"
        /\ (MetadataGiven /\ MetadataTypeOf \notin GraphType) =>
              loaded.error = "invalid graph type"

\* C18 witness: the two edge columns and valid metadata, the source column
\* stored in two chunks: refused by the chunk-count assertion.
C18_Witness ==
    /\ Read
    /\ MetadataGiven
    /\ MetadataTypeOf = "directed"
    /\ Len(serialized.chunk_map) = 3
    /\ \A i \in ColumnEntries :
          \E k \in 1..Len(serialized.chunk_map[i].key) :
              serialized.chunk_map[i].key[k] = "MARKER"
    /\ \E i \in ColumnEntries : Len(serialized.chunk_map[i].chunks) = 2
    /\ \A i \in ColumnEntries : Len(serialized.chunk_map[i].chunks) >= 1
    /\ ~loaded.ok
    /\ loaded.error = "assert: number of chunks"

----------------------------------------------------------------------------
(* Claims about the construction from a file *)

Filed == pc = "filed"

\* the extensions that the dispatcher accepts
AcceptedExtensions ==
    {Ext.gml, Ext.gexf, Ext.graphml, Ext.pajek, Ext.net, Ext.leda, Ext.graph6,
     Ext.g6, Ext.sparse6, Ext.s6}

ExtensionAccepted ==
    \E e \in AcceptedExtensions :
        /\ Len(opcall.file_name) > Len(e)
        /\ SubSeq(opcall.file_name, Len(opcall.file_name) - Len(e),
                  Len(opcall.file_name)) = <<".">> \o e

\* C19: a file name that ends with none of the accepted extensions fails with
\* a processing error without a reader being invoked, and the error names the
\* file and lists the supported extensions, every accepted one among them.
C19_Claim ==
    (Filed /\ ~ExtensionAccepted) =>
        /\ ~opres.ok
        /\ opres.error = "KiaraProcessingException"
        /\ opres.calls = <<>>
        /\ opres.aux.file_name = opcall.file_name
        /\ \A e \in AcceptedExtensions :
              \E i \in 1..Len(opres.aux.supported) : opres.aux.supported[i] = e

----------------------------------------------------------------------------
(* Claims about the input of an operation *)

\* the record that the operation was given: the one built from the tables
GivenRecord ==
    create_from_tables(call.graph_type, call.edges_table, call.nodes_table,
                       call.source_column_name, call.target_column_name,
                       call.node_id_column_name)

----------------------------------------------------------------------------
(* Claims about the modules as functions of their inputs *)

\* what the operation of this state can return on the inputs of this state,
\* whatever its random values and the order of its sets of strings
Outcomes ==
    CASE opcall.op = "calculate_nodes_degree" ->
            {DegreeRankingModule_process(created.graph, opcall.wd, opcall.weight_name,
                                         random) :
                random \in [1..Len(nodes(created.graph).rows) -> {1, 2}]}
      [] opcall.op = "degree" ->
            {Degree_Ranking_process(created.graph, h) : h \in HashSeeds}
      [] opcall.op = "betweenness" ->
            {Betweenness_Ranking_process(created.graph, opcall.lib, h) : h \in HashSeeds}
      [] opcall.op = "cut_points" ->
            {CutPointsList_process(created.graph, h) : h \in HashSeeds}
      [] OTHER -> {opres}

\* C21: an operation run again on the same record with the same parameters
\* returns what it returned: no outcome other than the one of this state.
C21_Claim ==
    Operated => \A r \in Outcomes : r = opres

----------------------------------------------------------------------------
(* Claims about the temporary directories of serialization *)

\* C23: every serialization call works in a directory that no earlier call
\* has used and registers the cleanup of that directory; it leaves every file
\* of the earlier calls as it was, as does deserialization; the files of its
\* chunk map exist; and at process exit no file of a registered directory
\* remains.
C23_PrivateDirectories ==
    [][/\ pc' = "serialized" =>
            /\ ~Contains(atexit, serialized'.temp_f)
            /\ atexit' = Append(atexit, serialized'.temp_f)
            /\ \A p \in DOMAIN fs : p \in DOMAIN fs' /\ fs'[p] = fs[p]
            /\ \A i \in 1..Len(serialized'.chunk_map) :
                  serialized'.chunk_map[i].key # GRAPH_METADATA_KEY =>
                      /\ serialized'.chunk_map[i].chunks[1].file \in DOMAIN fs'
                      /\ serialized'.chunk_map[i].chunks[1].file.dir = serialized'.temp_f
       /\ pc' = "loaded" => fs' = fs /\ atexit' = atexit
       /\ pc' = "exited" =>
            /\ \A p \in DOMAIN fs' : ~Contains(atexit, p.dir)
            /\ \A k \in 1..Len(atexit) : Contains(atexit', atexit[k])
      ]_vars

\* C23 witness: two serialization calls have written files, each into its
\* own registered directory, and the files of the first are still there.
C23_Witness ==
    /\ pc = "serialized"
    /\ Len(atexit) = 2
    /\ atexit[1] # atexit[2]
    /\ serialized.temp_f = atexit[2]
    /\ \E p, q \in DOMAIN fs : p.dir = atexit[1] /\ q.dir = atexit[2]

----------------------------------------------------------------------------
(* Claims about the weighted closeness *)

\* the weighted closeness has been computed: the library was called a second
\* time, on the graph with the weights
WeightedClosenessRun ==
    /\ Operated
    /\ opcall.op = "closeness"
    /\ opcall.wd
    /\ Len(opres.calls) = 2

\* the weights of the edges of a graph object, edge by edge
WeightsOf(G) ==
    [i \in 1..Len(G.edges) |->
        IF HasAttr(G.edges[i].attrs, WEIGHT) THEN AttrGet(G.edges[i].attrs, WEIGHT)
        ELSE 0]

\* C24: where some edge weight is not 1, the weights handed to the weighted
\* closeness computation under one setting of weight_meaning differ from
\* those handed to it under the other setting.
C24_Claim ==
    (WeightedClosenessRun
        /\ \E i \in 1..Len(opres.calls[2].graph.edges) :
                WeightsOf(opres.calls[2].graph)[i] \notin {0, 1}) =>
        WeightsOf(WeightedGraph(created.graph, opcall.weight_name, ~opcall.wm).graph)
            # WeightsOf(opres.calls[2].graph)

----------------------------------------------------------------------------
(* Claims about the files of one serialization *)

\* the entries of the chunk map that stand for a column
ColumnChunks ==
    {i \in 1..Len(serialized.chunk_map) :
        serialized.chunk_map[i].key # GRAPH_METADATA_KEY}

\* C25: after a serialization, no two column keys of the chunk map refer to
\* the same file, and the file of every key holds the column of the table
\* that the key names.
C25_Claim ==
    (pc = "serialized" /\ serialized.ok) =>
        /\ \A i, j \in ColumnChunks :
              i # j => serialized.chunk_map[i].chunks[1].file
                         # serialized.chunk_map[j].chunks[1].file
        /\ \A t \in 1..Len(created.graph.tables) :
              \A c \in 1..Len(created.graph.tables[t].table.cols) :
                \A i \in ColumnChunks :
                    serialized.chunk_map[i].key
                        = created.graph.tables[t].id \o <<"MARKER">>
                            \o created.graph.tables[t].table.cols[c]
                    => fs[serialized.chunk_map[i].chunks[1].file].values
                         = [r \in 1..Len(created.graph.tables[t].table.rows) |->
                                created.graph.tables[t].table.rows[r][c]]

----------------------------------------------------------------------------
(* Claims about the consistency of the two tables *)

\* C26: in a graph returned by create_from_tables every value of the source
\* and the target column of the edges table is a value of the node id column
\* of the nodes table, and num_nodes is the number of nodes of the graph
\* object made of the graph.
C26_Claim ==
    (pc = "created" /\ created.ok) =>
        /\ \A v \in Range(Column(edges(created.graph), created.graph.source_column_name))
                    \cup Range(Column(edges(created.graph),
                                      created.graph.target_column_name)) :
              v \in Range(Column(nodes(created.graph), created.graph.node_id_column_name))
        /\ num_rows(nodes(created.graph)) = Len(as_networkx_graph(created.graph).nodes)

----------------------------------------------------------------------------
(* Claims about the declared outputs *)

\* C27: a module that ends without error has set the outputs that its
\* output schema declares, all of them and no others.
C27_Claim ==
    (Operated /\ opres.ok) => opres.outputs = create_outputs_schema(opcall.op)

----------------------------------------------------------------------------
(* Claims about the strategies of the weighted assembly *)

\* a weighted assembly whose inputs have passed every check of the module
GuardsPassed ==
    /\ Assembled
    /\ opcall.is_weighted
    /\ NamesAccepted
    /\ ~NoWeightSource
    /\ ~NoColumnAndNotSum
    /\ ~WeightColumnAbsent

\* C28: a weighted assembly whose weight column and strategy have passed the
\* checks has a defined list of (source, target, weight) entries when the
\* weight table is built.
C28_Claim ==
    GuardsPassed => opres.aux.defined

----------------------------------------------------------------------------
(* Claims about column names that hold the split marker *)

\* the columns of the edges table whose name holds the split marker
MarkerColumns ==
    {c \in 1..Len(edges(created.graph).cols) :
        \E k \in 1..Len(edges(created.graph).cols[c]) :
            edges(created.graph).cols[c][k] = "MARKER"}

\* C29: a graph whose edges table has a column with the split marker in its
\* name is deserialized from its serialized form with that column in the
\* edges table, under its full name and with its values, and with no table
\* other than the edges and the nodes table.
C29_MarkerColumnRestored ==
    (pc = "loaded" /\ MarkerColumns # {}) =>
        /\ loaded.ok
        /\ \A t \in 1..Len(loaded.graph.tables) :
              loaded.graph.tables[t].id \in {<<"edges">>, <<"nodes">>}
        /\ \A c \in MarkerColumns :
              /\ Contains(edges(loaded.graph).cols, edges(created.graph).cols[c])
              /\ Column(edges(loaded.graph), edges(created.graph).cols[c])
                    = Column(edges(created.graph), edges(created.graph).cols[c])
        /\ nodes(loaded.graph) = nodes(created.graph)

\* C29 witness: an edges table with a row and the column x<MARKER>y has
\* been serialized under the key edges<MARKER>x<MARKER>y and loaded.
C29_Witness ==
    /\ pc = "loaded"
    /\ loaded.ok
    /\ MarkerColumns # {}
    /\ Len(edges(created.graph).rows) = 1
    /\ \E i \in 1..Len(serialized.chunk_map) :
          serialized.chunk_map[i].key = <<"edges", "MARKER", "x", "MARKER", "y">>
    /\ Contains(edges(loaded.graph).cols, <<"x", "MARKER", "y">>)

----------------------------------------------------------------------------
(* Claims about the graph that a module returns *)

\* the rows of the input's edges table that the module keeps: all of them for
\* the cut point and the modularity module, those that are no self-loop for
\* the centrality modules
KeptEdgeRows ==
    SelectSeq(edges(created.graph).rows,
              LAMBDA row :
                \/ opcall.op \in {"cut_points", "modularity"}
                \/ row[IndexOf(edges(created.graph).cols, created.graph.source_column_name)]
                     # row[IndexOf(edges(created.graph).cols,
                                   created.graph.target_column_name)])

\* C30: the graph returned by one of the six modules has the node ids of the
\* input's nodes table, one row for each, and as many edge rows as the input
\* has edge rows that the module keeps.
C30_Claim ==
    (Operated /\ opres.ok
        /\ opcall.op \in {"degree", "betweenness", "eigenvector", "closeness",
                          "cut_points", "modularity"}) =>
        /\ Range(Column(nodes(opres.network), opres.network.node_id_column_name))
              = Range(Column(nodes(created.graph), created.graph.node_id_column_name))
        /\ num_rows(nodes(opres.network)) = num_rows(nodes(created.graph))
        /\ num_rows(edges(opres.network)) = Len(KeptEdgeRows)

====
